---- MODULE Spec2Model ----
(***************************************************************************)
(* NebulaRaceServer: the room lifecycle orchestrator (server.js) and the   *)
(* per-room physics worker's command loop (workers/PhysicsWorker.js, kept  *)
(* in utils.js), as one state machine.                                     *)
(*                                                                         *)
(* The main process is single threaded: every WebSocket handler, timer     *)
(* callback and worker-message callback is one atomic action.  Each room   *)
(* owns one worker thread; main and worker exchange messages over two      *)
(* FIFO ports (inbox: main -> worker, outbox: worker -> main).             *)
(* A connection's playerId is the connection itself (uuid per connection). *)
(* Room ids are drawn from a counter: like uuids they are never reused.    *)
(***************************************************************************)
EXTENDS Integers, Sequences, FiniteSets, TLC

\* ---- bounds of the model ------------------------------------------------
NumConns ==
    2
MaxRooms ==
    2
MaxTime ==
    2
MaxInbox ==
    2
MaxOutbox ==
    1
CurveLen ==
    3
MaxStartIndex ==
    4
MaxComponent ==
    1
MaxAngle ==
    3
MaxOctaves ==
    3
MaxFrequency ==
    2
MaxLacunarity ==
    3
MaxScore ==
    2

\* ---- program constants --------------------------------------------------
MAX_PLAYERS_PER_ROOM ==
    8
ForceStartSeconds ==
    3
RaceCountdownSeconds ==
    5
ThrottleValues ==
    {1}
SpeedValues ==
    {2}

\* Connections: one more than a room holds, so that a full room can be met.
\* Clients are the NumConns connections that are open in the small scenarios.
Conns == 1..(MAX_PLAYERS_PER_ROOM + 1)
Clients == 1..NumConns
RoomIds == 1..MaxRooms
Phases == <<"lobby", "pregame", "racecountdown", "racing", "finished">>

VARIABLES
    conns,          \* ws objects: [open, roomId]; roomId 0 is "not set"
    registry,       \* keys of state.rooms
    nextRoom,       \* the next fresh room id (uuidv4)
    rooms,          \* room objects, by id
    timers,         \* live setInterval closures per room: remaining t, 0 = none
    closures,       \* per room: workerReady, pendingMessages, once-listener
    wstatus,        \* worker thread: "none", "alive", "terminating", "dead"
    inbox,          \* messages posted to the worker, not yet processed
    outbox,         \* messages posted by the worker, not yet handled by main
    eng,            \* worker module state
    now,            \* Date.now()
    allowForceStart,\* process.env.ALLOW_FORCE_START === 'true'
    fault,          \* an uncaught exception was raised in the main process
    events,         \* messages sent to clients by the latest step
    lastIn,         \* history: last input/config values forwarded per player
    handled,        \* history: the command or worker message the latest
                    \* step handled, where a property refers to it
    calc            \* a call of a math.js or fbm.js function on its own:
                    \* the function, its operands and its result

vars == <<conns, registry, nextRoom, rooms, timers, closures, wstatus, inbox,
          outbox, eng, now, allowForceStart, fault, events, lastIn,
          handled, calc>>

\* ---- values ---------------------------------------------------------------
\* An optional value is a set with at most one element ({} is undefined).
Val(s) == CHOOSE v \in s : TRUE

RosterEntry(playerId, t) ==
    [id |-> playerId, ready |-> FALSE, joinedAt |-> t, score |-> 0,
     finishedAt |-> 0, position |-> 0]

NewRoom ==
    [players |-> <<>>, phase |-> "lobby", pregameTimer |-> FALSE,
     raceTimer |-> FALSE, raceStartAt |-> 0, physicsWorker |-> FALSE]

NoTimers == [pre |-> 0, race |-> 0]

NewClosure == [workerReady |-> FALSE, pendingMessages |-> <<>>,
               once |-> FALSE, playerId |-> 0, fbmParams |-> {},
               curvePoints |-> {}]

NoPlayerState ==
    [present |-> FALSE, throttle |-> 0, axis |-> 0, speed |-> 0, accel |-> 0,
     pitchVel |-> 0, rollVel |-> 0, damping |-> 0, pos |-> 0,
     rotFinite |-> TRUE, posFinite |-> TRUE, inside |-> FALSE,
     influence |-> {}]

\* curvePoints = null and startPositions = null are the empty optional;
\* a curve is the sequence of its points, each point its coordinate on the
\* straight line the curve lies on.
\* order is the iteration order of the players Map (insertion order).
\* Of the temp singletons the model keeps _tmpA (what the vector holds) and
\* _closestCorner (whose update wrote it last, 0 for none); every other
\* temp is written by each player's update before that update reads it.
\* corners records, for the latest collision test, what each of the 8
\* corners was scaled by.  tickTimers counts the intervals start() has set
\* and no clearInterval has cleared; interval tells whether the variable
\* holds a handle.
NewEngine ==
    [running |-> FALSE, interval |-> FALSE, physicsInterval |-> FALSE,
     players |-> [p \in Conns |-> NoPlayerState], stopped |-> FALSE,
     curvePoints |-> {}, startPositions |-> {}, nextStartIndex |-> 0,
     tickTimers |-> 0, order |-> <<>>, fbmParams |-> {}, planetRadius |-> 0,
     tmpA |-> "zero", closestCorner |-> [by |-> 0, finite |-> TRUE],
     corners |-> <<>>]

NoInput == [throttle |-> {}, speed |-> {}]

NotHandled == [room |-> 0, type |-> "", conn |-> 0, payload |-> FALSE]

\* No kernel function is being called on its own.
NoCalc == [fn |-> "none"]

\* The record of a client command: the sender, the room its connection
\* names, and whether the message carried a payload object.
Command(cs, c, type, payload) ==
    [room |-> cs[c].roomId, type |-> type, conn |-> c, payload |-> payload]

Msg(type, playerId, throttle, axis, speed) ==
    [type |-> type, playerId |-> playerId, throttle |-> throttle,
     axis |-> axis, speed |-> speed, acceleration |-> {},
     pitchVelocity |-> {}, rollVelocity |-> {}, damping |-> {},
     position |-> {}, fbmParams |-> {}, curvePoints |-> {},
     planetSize |-> {}]

\* The tuning fields of a message, each optional; damping is in thousandths.
Tuning(speed, acceleration, pitchVelocity, rollVelocity, damping) ==
    [speed |-> speed, acceleration |-> acceleration,
     pitchVelocity |-> pitchVelocity, rollVelocity |-> rollVelocity,
     damping |-> damping]

WithTuning(msg, cfg) ==
    [msg EXCEPT !.speed = cfg.speed, !.acceleration = cfg.acceleration,
                !.pitchVelocity = cfg.pitchVelocity,
                !.rollVelocity = cfg.rollVelocity, !.damping = cfg.damping]

\* position: [0, 0, 0]
Origin == 0

\* A curve of CurveLen points on a straight line, none at the origin.
Curve == [i \in 1..CurveLen |-> i]

\* The fields of a join payload the server reads besides the name, each
\* optional: const { name, fbmParams, curvePoints } = payload || {}.
\* A terrain parameter object is named by its kind.
JoinPayload(fbmParams, curvePoints) ==
    [fbmParams |-> fbmParams, curvePoints |-> curvePoints]

NoJoinPayload == JoinPayload({}, {})

\* fbmParams || {}: the object without any parameter
NoParams == "none"

\* Parameter objects a client may send: one whose elevation is the same in
\* every direction (no octave), one whose elevation varies.
TerrainKinds == {"flat", "rough"}

\* acceleration 1.0, pitchVelocity 1.0, rollVelocity 1.0, damping 0.998,
\* playerSpeed 1.0, position [0, 0, 0], fbmParams: fbmParams || {},
\* curvePoints: curvePoints || []
AddPlayerMsg(playerId, payload) ==
    [WithTuning(Msg("addPlayer", playerId, {}, {}, {}),
                Tuning({1}, {1}, {1}, {1}, {998}))
       EXCEPT !.position = {Origin},
              !.fbmParams = IF payload.fbmParams = {} THEN {NoParams}
                            ELSE payload.fbmParams,
              !.curvePoints = IF payload.curvePoints = {} THEN {<<>>}
                              ELSE payload.curvePoints]
RemovePlayerMsg(playerId) == Msg("removePlayer", playerId, {}, {}, {})
\* planetSize: fbmParams?.planetSize || 350
PlanetSize == 350

InitMsg(payload) ==
    [Msg("init", 0, {}, {}, {}) EXCEPT !.fbmParams = payload.fbmParams,
                                       !.curvePoints = payload.curvePoints,
                                       !.planetSize = {PlanetSize}]
StartMsg == Msg("start", 0, {}, {}, {})
StopMsg == Msg("stop", 0, {}, {}, {})

OutMsg(type, keys) == [type |-> type, keys |-> keys]

\* ---- roster helpers (room.players is an insertion-ordered object) ---------
Ids(players) == {players[i].id : i \in 1..Len(players)}

IndexOf(players, playerId) ==
    CHOOSE i \in 1..Len(players) : players[i].id = playerId

RECURSIVE Without(_, _)
Without(players, playerId) ==
    IF players = <<>> THEN <<>>
    ELSE IF Head(players).id = playerId THEN Tail(players)
    ELSE <<Head(players)>> \o Without(Tail(players), playerId)

\* ---- server.js: getRoom / send / broadcast -------------------------------
getRoom(reg, roomId) == roomId \in reg

Event(type, roomId, c, arg) ==
    [type |-> type, room |-> roomId, to |-> c, arg |-> arg]

send(cs, c, type, roomId) ==
    IF cs[c].open THEN {Event(type, roomId, c, 0)} ELSE {}

\* broadcast without its "if (!room) return" guard.
broadcastNoRoomCheck(reg, cs, roomId, type, arg) ==
    {Event(type, roomId, c, arg) :
        c \in {d \in Conns : cs[d].open /\ cs[d].roomId = roomId}}

\* broadcast without its "client.roomId === roomId" test.
broadcastEveryClient(reg, cs, roomId, type, arg) ==
    IF ~getRoom(reg, roomId) THEN {}
    ELSE {Event(type, roomId, c, arg) : c \in {d \in Conns : cs[d].open}}

broadcast(reg, cs, roomId, type, arg) ==
    IF ~getRoom(reg, roomId) THEN {}
    ELSE {Event(type, roomId, c, arg) :
            c \in {d \in Conns : cs[d].open /\ cs[d].roomId = roomId}}

broadcastRoomState(reg, cs, roomId) ==
    broadcast(reg, cs, roomId, "room:update", 0)

\* worker.postMessage: a message posted to a thread that is being terminated
\* or has exited is dropped.
postMessage(ws, ib, r, msgs) ==
    IF ws[r] = "alive" THEN [ib EXCEPT ![r] = @ \o msgs] ELSE ib

\* The state after construction: no room, openConns connected and in no
\* room (the others have connected and left again), firstRoom the first id
\* the id generator hands out, force the ALLOW_FORCE_START setting.
InitProgram(openConns, firstRoom, force) ==
    /\ conns = [c \in Conns |-> [open |-> c \in openConns, roomId |-> 0]]
    /\ registry = {}
    /\ nextRoom = firstRoom
    /\ rooms = [r \in RoomIds |-> NewRoom]
    /\ timers = [r \in RoomIds |-> NoTimers]
    /\ closures = [r \in RoomIds |-> NewClosure]
    /\ wstatus = [r \in RoomIds |-> "none"]
    /\ inbox = [r \in RoomIds |-> <<>>]
    /\ outbox = [r \in RoomIds |-> <<>>]
    /\ eng = [r \in RoomIds |-> NewEngine]
    /\ now = 1
    /\ allowForceStart \in force
    /\ fault = FALSE
    /\ events = {}
    /\ lastIn = [r \in RoomIds |-> [p \in Conns |-> NoInput]]
    /\ handled = NotHandled

InitWith(openConns, firstRoom, force) ==
    /\ InitProgram(openConns, firstRoom, force)
    /\ calc = NoCalc

Init == InitWith(Conns, 1, BOOLEAN)

\* Date.now() advances between two callbacks.
ClockTick ==
    /\ ~fault
    /\ UNCHANGED calc
    /\ handled' = NotHandled
    /\ now < MaxTime
    /\ now' = now + 1
    /\ events' = {}
    /\ UNCHANGED <<conns, registry, nextRoom, rooms, timers, closures, wstatus,
                   inbox, outbox, eng, allowForceStart, fault, lastIn>>

\* ---- server.js: getOrCreateOpenRoom -------------------------------------
\* for..in over state.rooms visits rooms in creation order.
\* The search without its "room.phase === 'lobby'" test.
OpenRoomsAnyPhase ==
    {r \in registry : Len(rooms[r].players) < MAX_PLAYERS_PER_ROOM}

\* The search with "playerCount <= MAX_PLAYERS_PER_ROOM".
OpenRoomsUpToCap ==
    {r \in registry : /\ rooms[r].phase = "lobby"
                      /\ Len(rooms[r].players) <= MAX_PLAYERS_PER_ROOM}

OpenRooms ==
    {r \in registry : /\ rooms[r].phase = "lobby"
                      /\ Len(rooms[r].players) < MAX_PLAYERS_PER_ROOM}

FirstOpenRoom == CHOOSE r \in OpenRooms : \A q \in OpenRooms : r <= q

\* join, an open room exists: the room is reused.
JoinExisting(c, payload) ==
    /\ ~fault
    /\ conns[c].open
    /\ OpenRooms # {}
    /\ UNCHANGED calc
    /\ handled' = [room |-> FirstOpenRoom, type |-> "join", conn |-> c,
                   payload |-> TRUE]
    /\ LET r == FirstOpenRoom
           isNew == c \notin Ids(rooms[r].players)
           post == isNew /\ rooms[r].physicsWorker
           cs == [conns EXCEPT ![c].roomId = r]
       IN  /\ post => Len(inbox[r]) < MaxInbox
           /\ conns' = cs
           /\ rooms' = IF isNew
                       THEN [rooms EXCEPT
                               ![r].players = Append(@, RosterEntry(c, now))]
                       ELSE rooms
           /\ inbox' = IF post
                       THEN postMessage(wstatus, inbox, r,
                                        <<AddPlayerMsg(c, payload)>>)
                       ELSE inbox
           /\ lastIn' = IF isNew THEN [lastIn EXCEPT ![r][c] = NoInput]
                        ELSE lastIn
           /\ events' = send(cs, c, "joined", r)
                            \cup broadcastRoomState(registry, cs, r)
    /\ UNCHANGED <<registry, nextRoom, timers, closures, wstatus, outbox, eng,
                   now, allowForceStart, fault>>

\* join, no open room: a room and its worker are created, the joiner is put
\* on the roster and an addPlayer is posted at once.  The worker script posts
\* 'ready' when it is loaded, before it handles any message.
JoinCreate(c, payload) ==
    /\ ~fault
    /\ UNCHANGED calc
    /\ handled' = [room |-> nextRoom, type |-> "join", conn |-> c,
                   payload |-> TRUE]
    /\ conns[c].open
    /\ OpenRooms = {}
    /\ nextRoom <= MaxRooms
    /\ LET r == nextRoom
           cs == [conns EXCEPT ![c].roomId = r]
           reg == registry \cup {r}
       IN  /\ conns' = cs
           /\ registry' = reg
           /\ nextRoom' = nextRoom + 1
           /\ rooms' = [rooms EXCEPT
                          ![r] = [NewRoom EXCEPT
                                    !.players = <<RosterEntry(c, now)>>,
                                    !.physicsWorker = TRUE]]
           /\ timers' = [timers EXCEPT ![r] = NoTimers]
           /\ closures' = [closures EXCEPT
                             ![r] = [NewClosure EXCEPT
                                       !.once = TRUE, !.playerId = c,
                                       !.fbmParams = payload.fbmParams,
                                       !.curvePoints = payload.curvePoints]]
           /\ wstatus' = [wstatus EXCEPT ![r] = "alive"]
           /\ inbox' = [inbox EXCEPT
                          ![r] = <<AddPlayerMsg(c, payload)>>]
           /\ outbox' = [outbox EXCEPT ![r] = <<OutMsg("ready", {})>>]
           /\ eng' = [eng EXCEPT ![r] = NewEngine]
           /\ lastIn' = [lastIn EXCEPT ![r][c] = NoInput]
           /\ events' = send(cs, c, "joined", r)
                            \cup broadcastRoomState(reg, cs, r)
    /\ UNCHANGED <<now, allowForceStart, fault>>

\* ---- server.js: ws.on('message') 'removed' -------------------------------
Removed(c) ==
    /\ ~fault
    /\ UNCHANGED calc
    /\ handled' = NotHandled
    /\ conns[c].open
    /\ LET r == conns[c].roomId IN
       IF r = 0 \/ ~getRoom(registry, r) \/ c \notin Ids(rooms[r].players)
       THEN /\ events' = {}
            /\ UNCHANGED <<rooms, inbox, lastIn>>
       ELSE /\ inbox' = IF rooms[r].physicsWorker
                        THEN postMessage(wstatus, inbox, r,
                                         <<RemovePlayerMsg(c)>>)
                        ELSE inbox
            /\ rooms' = [rooms EXCEPT ![r].players = Without(@, c)]
            /\ lastIn' = [lastIn EXCEPT ![r][c] = NoInput]
            /\ events' = send(conns, c, "removed", r)
                             \cup broadcastRoomState(registry, conns, r)
    /\ UNCHANGED <<conns, registry, nextRoom, timers, closures, wstatus,
                   outbox, eng, now, allowForceStart, fault>>

\* ---- server.js: ws.on('message') 'setReady' ------------------------------
\* getRoom may return undefined: room.players then raises a TypeError.
\* payload is {} when the message has no payload (payload.ready then raises
\* a TypeError), else {b} with b = !!payload.ready.
SetReady(c, payload) ==
    /\ ~fault
    /\ UNCHANGED calc
    /\ handled' = Command(conns, c, "setReady", payload # {})
    /\ conns[c].open
    /\ LET r == conns[c].roomId IN
       IF r = 0
       THEN /\ events' = {}
            /\ UNCHANGED <<rooms, fault>>
       ELSE IF ~getRoom(registry, r)
       THEN /\ fault' = TRUE
            /\ events' = {}
            /\ UNCHANGED rooms
       ELSE IF c \notin Ids(rooms[r].players)
       THEN /\ events' = {}
            /\ UNCHANGED <<rooms, fault>>
       ELSE IF payload = {}
       THEN /\ fault' = TRUE
            /\ events' = {}
            /\ UNCHANGED rooms
       ELSE /\ rooms' = [rooms EXCEPT
                 ![r].players[IndexOf(rooms[r].players, c)].ready =
                     Val(payload)]
            /\ events' = broadcastRoomState(registry, conns, r)
            /\ UNCHANGED fault
    /\ UNCHANGED <<conns, registry, nextRoom, timers, closures, wstatus,
                   inbox, outbox, eng, now, allowForceStart, lastIn>>

\* ---- server.js: ws.on('message') 'input' ---------------------------------
\* payload.throttle and payload.inputAxis may each be undefined; both keys
\* are always present in the message posted to the worker.  Without a
\* payload (payload = FALSE) the broadcast still goes out ("...undefined"
\* spreads to nothing) and payload.throttle raises a TypeError.
Input(c, payload, throttle, axis) ==
    /\ ~fault
    /\ UNCHANGED calc
    /\ handled' = Command(conns, c, "input", payload)
    /\ conns[c].open
    /\ LET r == conns[c].roomId IN
       IF r = 0
       THEN /\ events' = {}
            /\ UNCHANGED <<inbox, fault, lastIn>>
       ELSE IF ~getRoom(registry, r)
       THEN /\ fault' = TRUE
            /\ events' = {}
            /\ UNCHANGED <<inbox, lastIn>>
       ELSE IF c \notin Ids(rooms[r].players)
       THEN /\ events' = {}
            /\ UNCHANGED <<inbox, fault, lastIn>>
       ELSE IF rooms[r].physicsWorker /\ ~payload
       THEN /\ fault' = TRUE
            /\ events' = broadcast(registry, conns, r, "input", 0)
            /\ UNCHANGED <<inbox, lastIn>>
       ELSE /\ rooms[r].physicsWorker => Len(inbox[r]) < MaxInbox
            /\ events' = broadcast(registry, conns, r, "input", 0)
            /\ inbox' = IF rooms[r].physicsWorker
                        THEN postMessage(wstatus, inbox, r,
                                 <<Msg("input", c, throttle, axis, {})>>)
                        ELSE inbox
            /\ lastIn' = IF rooms[r].physicsWorker /\ throttle # {}
                         THEN [lastIn EXCEPT ![r][c].throttle = throttle]
                         ELSE lastIn
            /\ UNCHANGED fault
    /\ UNCHANGED <<conns, registry, nextRoom, rooms, timers, closures,
                   wstatus, outbox, eng, now, allowForceStart>>

\* ---- server.js: ws.on('message') 'config' --------------------------------
\* The payload is spread into the message: a missing payload posts the same
\* message as a payload without tuning fields.
Config(c, cfg) ==
    /\ ~fault
    /\ UNCHANGED calc
    /\ handled' = Command(conns, c, "config", TRUE)
    /\ conns[c].open
    /\ LET r == conns[c].roomId IN
       IF r = 0 \/ ~getRoom(registry, r) \/ ~rooms[r].physicsWorker
       THEN UNCHANGED <<inbox, lastIn>>
       ELSE /\ Len(inbox[r]) < MaxInbox
            /\ inbox' = postMessage(wstatus, inbox, r,
                    <<WithTuning(Msg("config", c, {}, {}, {}), cfg)>>)
            /\ lastIn' = IF cfg.speed # {}
                         THEN [lastIn EXCEPT ![r][c].speed = cfg.speed]
                         ELSE lastIn
    /\ events' = {}
    /\ UNCHANGED <<conns, registry, nextRoom, rooms, timers, closures,
                   wstatus, outbox, eng, now, allowForceStart, fault>>

\* ---- server.js: endRace / startRace / countdowns ---------------------------
AllFinished(players) ==
    \A i \in 1..Len(players) : players[i].finishedAt # 0

\* ws.on('message') 'finish': room?.players[playerId] guards a missing room.
Finish(c) ==
    /\ ~fault
    /\ UNCHANGED calc
    /\ handled' = Command(conns, c, "finish", TRUE)
    /\ conns[c].open
    /\ LET r == conns[c].roomId IN
       IF r = 0 \/ ~getRoom(registry, r) \/ c \notin Ids(rooms[r].players)
       THEN /\ events' = {}
            /\ UNCHANGED rooms
       ELSE LET i == IndexOf(rooms[r].players, c)
                ps == [rooms[r].players EXCEPT
                         ![i].finishedAt = now, ![i].score = @ + 1]
                fin == broadcast(registry, conns, r, "player:finished", c)
            IN  /\ rooms[r].players[i].score < MaxScore
                /\ IF AllFinished(ps)
                   THEN /\ rooms' = [rooms EXCEPT ![r].players = ps,
                                                  ![r].phase = "finished"]
                        /\ events' = fin
                             \cup broadcast(registry, conns, r, "race:end", 0)
                             \cup broadcastRoomState(registry, conns, r)
                   ELSE /\ rooms' = [rooms EXCEPT ![r].players = ps]
                        /\ events' = fin
    /\ UNCHANGED <<conns, registry, nextRoom, timers, closures, wstatus,
                   inbox, outbox, eng, now, allowForceStart, fault, lastIn>>

\* startNow whose startPregameCountdown lacks the "phase !== 'lobby'" guard.
StartNowAnyPhase(c) ==
    /\ ~fault
    /\ UNCHANGED calc
    /\ handled' = Command(conns, c, "startNow", TRUE)
    /\ conns[c].open
    /\ LET r == conns[c].roomId IN
       IF /\ r # 0
          /\ allowForceStart
          /\ getRoom(registry, r)
       THEN /\ rooms' = [rooms EXCEPT ![r].phase = "pregame",
                                      ![r].pregameTimer = TRUE]
            /\ timers' = [timers EXCEPT ![r].pre = ForceStartSeconds]
            /\ events' = broadcastRoomState(registry, conns, r)
       ELSE /\ events' = {}
            /\ UNCHANGED <<rooms, timers>>
    /\ UNCHANGED <<conns, registry, nextRoom, closures, wstatus, inbox,
                   outbox, eng, now, allowForceStart, fault, lastIn>>

\* ws.on('message') 'startNow' -> startPregameCountdown(roomId, 3)
StartNow(c) ==
    /\ ~fault
    /\ UNCHANGED calc
    /\ handled' = Command(conns, c, "startNow", TRUE)
    /\ conns[c].open
    /\ LET r == conns[c].roomId IN
       IF /\ r # 0
          /\ allowForceStart
          /\ getRoom(registry, r)
          /\ rooms[r].phase = "lobby"
       THEN /\ rooms' = [rooms EXCEPT ![r].phase = "pregame",
                                      ![r].pregameTimer = TRUE]
            /\ timers' = [timers EXCEPT ![r].pre = ForceStartSeconds]
            /\ events' = broadcastRoomState(registry, conns, r)
       ELSE /\ events' = {}
            /\ UNCHANGED <<rooms, timers>>
    /\ UNCHANGED <<conns, registry, nextRoom, closures, wstatus, inbox,
                   outbox, eng, now, allowForceStart, fault, lastIn>>

\* assignStartPositions with the comparator reversed (b.joinedAt - a.joinedAt).
assignStartPositionsLatestFirst(players) ==
    [i \in 1..Len(players) |->
        [players[i] EXCEPT !.position =
            1 + Cardinality({j \in 1..Len(players) :
                    \/ players[j].joinedAt > players[i].joinedAt
                    \/ /\ players[j].joinedAt = players[i].joinedAt
                       /\ j < i})]]

\* assignStartPositions: a stable sort of Object.values(players) by joinedAt;
\* the i-th of the sorted list gets position i.
assignStartPositions(players) ==
    [i \in 1..Len(players) |->
        [players[i] EXCEPT !.position =
            1 + Cardinality({j \in 1..Len(players) :
                    \/ players[j].joinedAt < players[i].joinedAt
                    \/ /\ players[j].joinedAt = players[i].joinedAt
                       /\ j < i})]]

\* The pregame interval without its "t <= 0" branch: the firing that
\* reaches 0 broadcasts a tick of 0 seconds and leaves the timer armed.
PregameTimerFireLate(r) ==
    /\ ~fault
    /\ UNCHANGED calc
    /\ handled' = [room |-> r, type |-> "pregameTimer", conn |-> 0,
                   payload |-> FALSE]
    /\ timers[r].pre > 0
    /\ LET t == timers[r].pre - 1 IN
       /\ timers' = [timers EXCEPT ![r].pre = IF t > 0 THEN t ELSE 1]
       /\ events' = broadcast(registry, conns, r, "pregame:tick", t)
       /\ UNCHANGED rooms
    /\ UNCHANGED <<conns, registry, nextRoom, closures, wstatus, inbox,
                   outbox, eng, now, allowForceStart, fault, lastIn>>

\* The pregame interval fires.  On its last firing: clearInterval,
\* assignStartPositions, broadcastRoomState, startRaceCountdown(roomId, 5).
PregameTimerFire(r) ==
    /\ ~fault
    /\ UNCHANGED calc
    /\ handled' = [room |-> r, type |-> "pregameTimer", conn |-> 0,
                   payload |-> FALSE]
    /\ timers[r].pre > 0
    /\ LET t == timers[r].pre - 1 IN
       IF t > 0
       THEN /\ timers' = [timers EXCEPT ![r].pre = t]
            /\ events' = broadcast(registry, conns, r, "pregame:tick", t)
            /\ UNCHANGED rooms
       ELSE IF getRoom(registry, r)
       THEN /\ timers' = [timers EXCEPT
                            ![r] = [pre |-> 0, race |-> RaceCountdownSeconds]]
            /\ rooms' = [rooms EXCEPT
                           ![r].pregameTimer = FALSE,
                           ![r].players = assignStartPositions(@),
                           ![r].phase = "racecountdown",
                           ![r].raceTimer = TRUE]
            /\ events' = broadcastRoomState(registry, conns, r)
                 \cup broadcast(registry, conns, r, "racecountdown:tick",
                                RaceCountdownSeconds)
       ELSE /\ timers' = [timers EXCEPT ![r].pre = 0]
            /\ events' = {}
            /\ UNCHANGED rooms
    /\ UNCHANGED <<conns, registry, nextRoom, closures, wstatus, inbox,
                   outbox, eng, now, allowForceStart, fault, lastIn>>

\* The race-countdown interval without its clearInterval: it goes on firing
\* after the countdown has reached 0, and each firing calls startRace.
RaceTimerFireNoClear(r) ==
    /\ ~fault
    /\ UNCHANGED calc
    /\ handled' = [room |-> r, type |-> "raceTimer", conn |-> 0,
                   payload |-> FALSE]
    /\ timers[r].race > 0
    /\ LET t == timers[r].race - 1 IN
       IF t > 0
       THEN /\ timers' = [timers EXCEPT ![r].race = t]
            /\ events' = broadcast(registry, conns, r, "racecountdown:tick", t)
            /\ UNCHANGED rooms
       ELSE IF getRoom(registry, r)
       THEN /\ UNCHANGED timers
            /\ rooms' = [rooms EXCEPT ![r].phase = "racing",
                                      ![r].raceStartAt = now]
            /\ events' = broadcast(registry, conns, r, "race:start", now)
                 \cup broadcastRoomState(registry, conns, r)
       ELSE /\ UNCHANGED timers
            /\ events' = {}
            /\ UNCHANGED rooms
    /\ UNCHANGED <<conns, registry, nextRoom, closures, wstatus, inbox,
                   outbox, eng, now, allowForceStart, fault, lastIn>>

\* The race-countdown interval fires; on its last firing startRace(roomId).
RaceTimerFire(r) ==
    /\ ~fault
    /\ UNCHANGED calc
    /\ handled' = [room |-> r, type |-> "raceTimer", conn |-> 0,
                   payload |-> FALSE]
    /\ timers[r].race > 0
    /\ LET t == timers[r].race - 1 IN
       IF t > 0
       THEN /\ timers' = [timers EXCEPT ![r].race = t]
            /\ events' = broadcast(registry, conns, r, "racecountdown:tick", t)
            /\ UNCHANGED rooms
       ELSE IF getRoom(registry, r)
       THEN /\ timers' = [timers EXCEPT ![r].race = 0]
            /\ rooms' = [rooms EXCEPT ![r].raceTimer = FALSE,
                                      ![r].phase = "racing",
                                      ![r].raceStartAt = now]
            /\ events' = broadcast(registry, conns, r, "race:start", now)
                 \cup broadcastRoomState(registry, conns, r)
       ELSE /\ timers' = [timers EXCEPT ![r].race = 0]
            /\ events' = {}
            /\ UNCHANGED rooms
    /\ UNCHANGED <<conns, registry, nextRoom, closures, wstatus, inbox,
                   outbox, eng, now, allowForceStart, fault, lastIn>>

\* ---- server.js: cleanupRoom and ws.on('close') ---------------------------
\* clearInterval(room.pregameTimer); clearInterval(room.raceTimer)
clearTimers(room, tm) ==
    [pre |-> IF room.pregameTimer THEN 0 ELSE tm.pre,
     race |-> IF room.raceTimer THEN 0 ELSE tm.race]

\* cleanupRoom clearing the timers of every room and emptying the registry.
cleanupRoomEveryRoom(r, playerId) ==
    /\ timers' = [q \in RoomIds |-> clearTimers(rooms[q], timers[q])]
    /\ IF rooms[r].physicsWorker
       THEN /\ inbox' = postMessage(wstatus, inbox, r,
                                    <<RemovePlayerMsg(playerId), StopMsg>>)
            /\ wstatus' = [wstatus EXCEPT
                             ![r] = IF @ = "alive" THEN "terminating" ELSE @]
       ELSE UNCHANGED <<inbox, wstatus>>
    /\ registry' = {}
    /\ rooms' = [q \in RoomIds |-> NewRoom]

\* cleanupRoom(roomId, playerId) on a room that is in the registry.
\* terminate() is a request: the thread stops as soon as possible, and may
\* still run callbacks until it does.  The deleted room object is no longer
\* reachable: its record returns to the blank value.
cleanupRoom(r, playerId) ==
    /\ timers' = [timers EXCEPT ![r] = clearTimers(rooms[r], @)]
    /\ IF rooms[r].physicsWorker
       THEN /\ inbox' = postMessage(wstatus, inbox, r,
                                    <<RemovePlayerMsg(playerId), StopMsg>>)
            /\ wstatus' = [wstatus EXCEPT
                             ![r] = IF @ = "alive" THEN "terminating" ELSE @]
       ELSE UNCHANGED <<inbox, wstatus>>
    /\ registry' = registry \ {r}
    /\ rooms' = [rooms EXCEPT ![r] = NewRoom]

\* ws.on('close'): an empty room is deleted on the spot (cleanupRoom then
\* finds no room and returns); otherwise cleanupRoom runs, whoever is left.
Close(c) ==
    /\ ~fault
    /\ UNCHANGED calc
    /\ handled' = NotHandled
    /\ conns[c].open
    /\ conns' = [conns EXCEPT ![c].open = FALSE]
    /\ events' = {}
    /\ LET r == conns[c].roomId IN
       IF r = 0 \/ ~getRoom(registry, r)
       THEN UNCHANGED <<registry, rooms, timers, inbox, wstatus>>
       ELSE IF Len(rooms[r].players) = 0
       THEN /\ timers' = [timers EXCEPT ![r] = clearTimers(rooms[r], @)]
            /\ registry' = registry \ {r}
            /\ rooms' = [rooms EXCEPT ![r] = NewRoom]
            /\ UNCHANGED <<inbox, wstatus>>
       ELSE cleanupRoom(r, c)
    /\ UNCHANGED <<nextRoom, closures, outbox, eng, now, allowForceStart,
                   fault, lastIn>>

\* ---- server.js: sendToWorker and the worker's message listeners ----------
\* sendToWorker(msg): post when workerReady, else queue in pendingMessages.
\* The result is the pair <<inbox of r, pendingMessages>>.
sendToWorker(ready, ws, r, ib, pending, msg) ==
    IF ready
    THEN <<postMessage(ws, [q \in RoomIds |-> ib], r, <<msg>>)[r], pending>>
    ELSE <<ib, Append(pending, msg)>>

\* worker.once('message') on 'ready': flush pendingMessages, then
\* sendToWorker(init), sendToWorker(start), sendToWorker(addPlayer creator).
onReady(r, ib, cl) ==
    LET flushed == postMessage(wstatus, [q \in RoomIds |-> ib], r,
                               cl.pendingMessages)[r]
        s1 == sendToWorker(TRUE, wstatus, r, flushed, <<>>,
                          InitMsg(JoinPayload(cl.fbmParams,
                                              cl.curvePoints)))
        s2 == sendToWorker(TRUE, wstatus, r, s1[1], s1[2], StartMsg)
        s3 == IF cl.playerId # 0
              THEN sendToWorker(TRUE, wstatus, r, s2[1], s2[2],
                                AddPlayerMsg(cl.playerId,
                                             JoinPayload(cl.fbmParams,
                                                         cl.curvePoints)))
              ELSE s2
    IN  s3

\* The main process handles the next message of room r's worker: first the
\* once-listener (removed after its first call), then the on-listener.
MainOnMessage(r) ==
    /\ ~fault
    /\ outbox[r] # <<>>
    /\ UNCHANGED calc
    /\ handled' = [room |-> r, type |-> Head(outbox[r]).type, conn |-> 0,
                   payload |-> TRUE]
    /\ LET msg == Head(outbox[r])
           cl == closures[r]
       IN  /\ outbox' = [outbox EXCEPT ![r] = Tail(@)]
           /\ IF cl.once /\ msg.type = "ready"
              THEN LET res == onReady(r, inbox[r], cl) IN
                   /\ inbox' = [inbox EXCEPT ![r] = res[1]]
                   /\ closures' = [closures EXCEPT
                                     ![r].once = FALSE,
                                     ![r].workerReady = TRUE,
                                     ![r].pendingMessages = res[2]]
              ELSE /\ closures' = [closures EXCEPT ![r].once = FALSE]
                   /\ UNCHANGED inbox
           /\ events' = IF msg.type = "stateUpdate"
                        THEN broadcast(registry, conns, r, "physics:update", 0)
                        ELSE {}
    /\ UNCHANGED <<conns, registry, nextRoom, rooms, timers, wstatus, eng,
                   now, allowForceStart, fault, lastIn>>

\* ---- utils.js: the worker's command handlers -----------------------------
Runnable(r) == wstatus[r] \in {"alive", "terminating"}

\* a ?? b
OrElse(opt, default) == IF opt = {} THEN default ELSE Val(opt)

\* getStartPoseFromCurve(points, num / den): index = t * (n - 1),
\* i0 = floor(index), i1 = min(i0 + 1, n - 1), alpha = index - i0; the
\* position is p0 + (p1 - p0) * alpha and the quaternion looks along
\* (p1 - p0) / |p1 - p0|, which is NaN when p0 = p1.
getStartPoseFromCurve(points, num, den) ==
    LET n == Len(points)
        tn == IF num < 0 THEN 0 ELSE IF num > den THEN den ELSE num
        i0 == (tn * (n - 1)) \div den
        rem == (tn * (n - 1)) % den
        i1 == IF i0 + 1 < n - 1 THEN i0 + 1 ELSE n - 1
        p0 == points[i0 + 1]
        p1 == points[i1 + 1]
    IN  [position |-> p0 + ((p1 - p0) * rem) \div den, finite |-> p0 # p1]

\* curvePoints.map((_, i) => getStartPoseFromCurve(curvePoints,
\*                                   i / Math.max(1, numPositions - 1)))
precomputeStartPositions(points) ==
    LET n == Len(points)
        den == IF n - 1 > 1 THEN n - 1 ELSE 1
    IN  [i \in 1..n |-> getStartPoseFromCurve(points, i - 1, den)]

DefaultStartPose == [position |-> Origin, finite |-> TRUE]

\* The placements of the model (the origin and the points of the curve)
\* lie less than the planet radius from the centre.
InsidePlanet(pos) == pos < PlanetSize

\* addPlayer without its "if (!fbmParams)": every addPlayer sets the terrain.
addPlayerTakesTerrain(e, data) ==
    LET take == e.curvePoints = {} /\ data.curvePoints # {}
        e0 == [e EXCEPT !.fbmParams = data.fbmParams]
        e1 == IF take
              THEN [e0 EXCEPT !.curvePoints = data.curvePoints,
                              !.startPositions =
                                  {precomputeStartPositions(
                                       Val(data.curvePoints))},
                              !.nextStartIndex = 0]
              ELSE e0
        has == e1.startPositions # {} /\ Val(e1.startPositions) # <<>>
        sp == Val(e1.startPositions)
        startPose == IF has THEN sp[(e1.nextStartIndex % Len(sp)) + 1]
                     ELSE DefaultStartPose
        e2 == IF has THEN [e1 EXCEPT !.nextStartIndex = @ + 1] ELSE e1
        pos == OrElse(data.position, startPose.position)
    IN  [e2 EXCEPT
           !.order = IF e.players[data.playerId].present THEN @
                     ELSE Append(@, data.playerId),
           !.players[data.playerId] =
           [present |-> TRUE, throttle |-> 0, axis |-> 0,
            accel |-> OrElse(data.acceleration, 20),
            pitchVel |-> OrElse(data.pitchVelocity, 3),
            rollVel |-> OrElse(data.rollVelocity, 6),
            damping |-> OrElse(data.damping, 998),
            speed |-> OrElse(data.speed, 50),
            pos |-> pos, rotFinite |-> startPose.finite,
            posFinite |-> TRUE, inside |-> InsidePlanet(pos),
            influence |-> {}]]

\* addPlayer takes the terrain and the curve of the message when the engine has none, draws
\* startPositions[nextStartIndex % length] when there is a start position,
\* and places the player at data.position ?? startPose.position.
addPlayer(e, data) ==
    LET take == e.curvePoints = {} /\ data.curvePoints # {}
        e0 == IF e.fbmParams = {} THEN [e EXCEPT !.fbmParams = data.fbmParams]
              ELSE e
        e1 == IF take
              THEN [e0 EXCEPT !.curvePoints = data.curvePoints,
                              !.startPositions =
                                  {precomputeStartPositions(
                                       Val(data.curvePoints))},
                              !.nextStartIndex = 0]
              ELSE e0
        has == e1.startPositions # {} /\ Val(e1.startPositions) # <<>>
        sp == Val(e1.startPositions)
        startPose == IF has THEN sp[(e1.nextStartIndex % Len(sp)) + 1]
                     ELSE DefaultStartPose
        e2 == IF has THEN [e1 EXCEPT !.nextStartIndex = @ + 1] ELSE e1
        pos == OrElse(data.position, startPose.position)
    IN  [e2 EXCEPT
           !.order = IF e.players[data.playerId].present THEN @
                     ELSE Append(@, data.playerId),
           !.players[data.playerId] =
           [present |-> TRUE, throttle |-> 0, axis |-> 0,
            accel |-> OrElse(data.acceleration, 20),
            pitchVel |-> OrElse(data.pitchVelocity, 3),
            rollVel |-> OrElse(data.rollVelocity, 6),
            damping |-> OrElse(data.damping, 998),
            speed |-> OrElse(data.speed, 50),
            pos |-> pos, rotFinite |-> startPose.finite,
            posFinite |-> TRUE, inside |-> InsidePlanet(pos),
            influence |-> {}]]

\* removePlayer without its players.delete.
removePlayerNoDelete(e, data) ==
    e

removePlayer(e, data) ==
    [e EXCEPT !.players[data.playerId] = NoPlayerState,
              !.order = SelectSeq(@, LAMBDA q : q # data.playerId)]

\* playerSpeed, acceleration, pitchVelocity and rollVelocity are applied
\* when carried; no line of handleConfig reads data.damping.
handleConfig(e, data) ==
    IF ~e.players[data.playerId].present THEN e
    ELSE [e EXCEPT !.players[data.playerId].speed = OrElse(data.speed, @),
                   !.players[data.playerId].accel =
                       OrElse(data.acceleration, @),
                   !.players[data.playerId].pitchVel =
                       OrElse(data.pitchVelocity, @),
                   !.players[data.playerId].rollVel =
                       OrElse(data.rollVelocity, @)]

\* start without its "if (running) return".
startNoGuard(e) ==
    [e EXCEPT !.running = TRUE, !.interval = TRUE, !.tickTimers = @ + 1,
              !.stopped = FALSE]

start(e) ==
    IF e.running THEN e
    ELSE [e EXCEPT !.running = TRUE, !.interval = TRUE, !.tickTimers = @ + 1,
                   !.stopped = FALSE]

\* clearInterval(interval) clears the timer whose handle interval holds.
stop(e) ==
    [e EXCEPT !.running = FALSE, !.interval = FALSE,
              !.tickTimers = IF e.interval THEN @ - 1 ELSE @,
              !.stopped = TRUE]

\* init: planetSize and a carried terrain are stored, a carried curve
\* replaces the engine's and restarts the start index;
\* startFixedUpdateLoop (re)arms physicsInterval.
init(e, data) ==
    LET e1 == [e EXCEPT
                 !.planetRadius = OrElse(data.planetSize, @),
                 !.fbmParams = IF data.fbmParams # {} THEN data.fbmParams
                               ELSE @,
                 !.physicsInterval = TRUE]
    IN  IF data.curvePoints # {}
        THEN [e1 EXCEPT !.curvePoints = data.curvePoints,
                        !.startPositions =
                            {precomputeStartPositions(
                                 Val(data.curvePoints))},
                        !.nextStartIndex = 0]
        ELSE e1

\* handleInput reads data.inputAxis.x whenever the key is present, and the
\* key is always present: an undefined axis raises a TypeError.
InputThrows(e, data) ==
    /\ data.type = "input"
    /\ e.players[data.playerId].present
    /\ data.axis = {}

handleInput(e, data) ==
    IF ~e.players[data.playerId].present THEN e
    ELSE [e EXCEPT !.players[data.playerId].throttle =
                       IF data.throttle # {} THEN Val(data.throttle) ELSE @,
                   !.players[data.playerId].axis = Val(data.axis)]

\* parentPort.on('message')
Dispatch(e, data) ==
    CASE data.type = "addPlayer" -> addPlayer(e, data)
      [] data.type = "removePlayer" -> removePlayer(e, data)
      [] data.type = "config" -> handleConfig(e, data)
      [] data.type = "start" -> start(e)
      [] data.type = "stop" -> stop(e)
      [] data.type = "init" -> init(e, data)
      [] data.type = "input" -> handleInput(e, data)

\* worker.on('exit'): the room's handle is nulled if the room still exists.
onExit(r) ==
    IF getRoom(registry, r)
    THEN [rooms EXCEPT ![r].physicsWorker = FALSE]
    ELSE rooms

\* The worker handles the next command of its port.  For a start or stop
\* the history records whether the engine was running when it arrived.
WorkerProcess(r) ==
    /\ ~fault
    /\ UNCHANGED calc
    /\ handled' = IF inbox[r] # <<>> /\ Head(inbox[r]).type \in {"start", "stop"}
                  THEN [room |-> r, type |-> Head(inbox[r]).type, conn |-> 0,
                        payload |-> eng[r].running]
                  ELSE NotHandled
    /\ Runnable(r)
    /\ inbox[r] # <<>>
    /\ ~InputThrows(eng[r], Head(inbox[r]))
    /\ Head(inbox[r]).type = "addPlayer"
           => eng[r].nextStartIndex < MaxStartIndex
    /\ eng' = [eng EXCEPT ![r] = Dispatch(@, Head(inbox[r]))]
    /\ inbox' = [inbox EXCEPT ![r] = Tail(@)]
    /\ events' = {}
    /\ UNCHANGED <<conns, registry, nextRoom, rooms, timers, closures,
                   wstatus, outbox, now, allowForceStart, fault, lastIn>>

\* The command raises in the worker: the thread dies ('error', then 'exit').
WorkerCrash(r) ==
    /\ ~fault
    /\ UNCHANGED calc
    /\ handled' = NotHandled
    /\ Runnable(r)
    /\ inbox[r] # <<>>
    /\ InputThrows(eng[r], Head(inbox[r]))
    /\ wstatus' = [wstatus EXCEPT ![r] = "dead"]
    /\ inbox' = [inbox EXCEPT ![r] = <<>>]
    /\ rooms' = onExit(r)
    /\ events' = {}
    /\ UNCHANGED <<conns, registry, nextRoom, timers, closures, outbox, eng,
                   now, allowForceStart, fault, lastIn>>

\* A terminated thread stops; its unprocessed commands are discarded.
WorkerExit(r) ==
    /\ ~fault
    /\ UNCHANGED calc
    /\ handled' = NotHandled
    /\ wstatus[r] = "terminating"
    /\ wstatus' = [wstatus EXCEPT ![r] = "dead"]
    /\ inbox' = [inbox EXCEPT ![r] = <<>>]
    /\ rooms' = onExit(r)
    /\ events' = {}
    /\ UNCHANGED <<conns, registry, nextRoom, timers, closures, outbox, eng,
                   now, allowForceStart, fault, lastIn>>

\* start()'s interval fires: a 'tick' message is posted.
TickTimerFire(r) ==
    /\ ~fault
    /\ UNCHANGED calc
    /\ handled' = NotHandled
    /\ Runnable(r)
    /\ eng[r].tickTimers > 0
    /\ Len(outbox[r]) < MaxOutbox
    /\ outbox' = [outbox EXCEPT ![r] = Append(@, OutMsg("tick", {}))]
    /\ events' = {}
    /\ UNCHANGED <<conns, registry, nextRoom, rooms, timers, closures,
                   wstatus, inbox, eng, now, allowForceStart, fault, lastIn>>

\* ---- utils.js: the fixed physics tick -------------------------------------
\* The tick is modelled by its data flow: which values are finite, which
\* temp each step writes and reads, and whose update wrote what it reads.

\* signedDistanceToPlanet and obbSignedDistanceWithNormal return at once
\* (distance 1000) unless fbmParams is set and planetRadius is not 0.
TerrainActive(e) == e.fbmParams # {} /\ e.planetRadius # 0

\* The terrain elevation is NaN for a parameter object without parameters
\* (Math.pow(0, undefined)).
ElevationFinite(e) == e.fbmParams # {NoParams}

\* signedDistanceToPlanet(p) writes the normalised p into _tmpA before it
\* samples the terrain.
signedDistanceToPlanet(e) ==
    IF TerrainActive(e) THEN [e EXCEPT !.tmpA = "direction"] ELSE e

\* The loop over the 8 corners: corner i is scaled by what halfExtents
\* holds when it is built, and halfExtents is the caller's _tmpA.
RECURSIVE buildCorners(_, _)
buildCorners(e, i) ==
    IF i = 8 THEN e
    ELSE buildCorners(
             signedDistanceToPlanet([e EXCEPT !.corners = Append(@, e.tmpA)]),
             i + 1)

\* _closestCorner.copy(_tmpCorner) runs when d < minDist, which no NaN
\* distance satisfies.
closestCornerAfter(cc, p, dFinite) ==
    IF dFinite THEN [by |-> p, finite |-> TRUE] ELSE cc

\* obbSignedDistanceWithNormal(pos, _tmpA.set(1.0, 0.5, 2.0), rot, out) for
\* player p: the engine after the call, the distance (1000 and Infinity are
\* "outside") and the normal (whose update wrote the vector it was computed
\* from, 0 for a value that depends on the terrain alone).  The six
\* gradient samples are taken at _tmpA.copy(c).add(_tmpA.set(..)), twice the
\* offset, so the gradient depends on the terrain alone; it is NaN without
\* elevation and zero on a flat terrain, and then the normal is the
\* normalised _closestCorner.
obbSignedDistanceWithNormal(e, p, posFinite) ==
    LET e0 == [e EXCEPT !.tmpA = "halfExtents", !.corners = <<>>]
    IN  IF ~TerrainActive(e)
        THEN [engine |-> e0, distance |-> "outside",
              normal |-> [by |-> 0, finite |-> TRUE]]
        ELSE LET e1 == buildCorners(e0, 0)
                 dFinite == posFinite /\ ElevationFinite(e)
                 cc == closestCornerAfter(e.closestCorner, p, dFinite)
                 fallback == e.fbmParams \in {{NoParams}, {"flat"}}
             IN  [engine |-> [e1 EXCEPT !.closestCorner = cc],
                  distance |-> IF dFinite /\ e.players[p].inside
                               THEN "inside" ELSE "outside",
                  normal |-> IF fallback THEN cc
                             ELSE [by |-> 0, finite |-> TRUE]]

\* updatePlayerPhysics(state) for player p: the rotation stays finite when
\* it was, the position stays finite when the rotation is (the velocity
\* follows the forward axis); on a hit (distance < playerRadius) the
\* position is pushed out along the normal.  influence is the set of
\* players whose updates wrote a value this update's result depends on.
updatePlayerPhysics(e, p) ==
    LET st == e.players[p]
        posFinite == st.posFinite /\ st.rotFinite
        obb == obbSignedDistanceWithNormal(e, p, posFinite)
        hit == obb.distance = "inside"
    IN  [obb.engine EXCEPT
           !.players[p].posFinite =
               IF hit THEN posFinite /\ obb.normal.finite ELSE posFinite,
           !.players[p].inside = IF hit THEN FALSE ELSE @,
           !.players[p].influence =
               IF hit THEN ({p} \cup {obb.normal.by}) \ {0} ELSE {p}]

\* The loop leaving at the first player whose pose is not finite.
RECURSIVE updateAllStopAtFault(_, _)
updateAllStopAtFault(e, ids) ==
    IF ids = <<>> THEN e
    ELSE LET e1 == updatePlayerPhysics(e, Head(ids))
         IN  IF e1.players[Head(ids)].posFinite
             THEN updateAllStopAtFault(e1, Tail(ids))
             ELSE e1

RECURSIVE updateAll(_, _)
updateAll(e, ids) ==
    IF ids = <<>> THEN e
    ELSE updateAll(updatePlayerPhysics(e, Head(ids)), Tail(ids))

\* updatePhysics: every player is updated in Map order, then one snapshot
\* keyed by the player set is posted.
updatePhysics(e) ==
    LET e1 == updateAll(e, e.order)
    IN  [engine |-> e1,
         out |-> OutMsg("stateUpdate", {e1.order[i] : i \in 1..Len(e1.order)})]

\* physicsInterval fires.
PhysicsTimerFire(r) ==
    /\ ~fault
    /\ UNCHANGED calc
    /\ handled' = [room |-> r, type |-> "physicsTick", conn |-> 0,
                   payload |-> FALSE]
    /\ Runnable(r)
    /\ eng[r].physicsInterval
    /\ Len(outbox[r]) < MaxOutbox
    /\ outbox' = [outbox EXCEPT ![r] = Append(@, updatePhysics(eng[r]).out)]
    /\ eng' = [eng EXCEPT ![r] = updatePhysics(eng[r]).engine]
    /\ events' = {}
    /\ UNCHANGED <<conns, registry, nextRoom, rooms, timers, closures,
                   wstatus, inbox, now, allowForceStart, fault, lastIn>>

\* The curvePoints a join payload may carry: none, an empty array, the
\* straight-line curve.
CurvePayloads == {{}, {<<>>}, {Curve}}

\* The fbmParams a join payload may carry: none, or a parameter object.
TerrainPayloads == {{}} \cup {{k} : k \in TerrainKinds}

JoinPayloads ==
    {JoinPayload(f, cv) : f \in TerrainPayloads, cv \in CurvePayloads}

ClientStepsWith(payloads) ==
    \/ \E c \in Conns, pl \in payloads : JoinExisting(c, pl)
    \/ \E c \in Conns, pl \in payloads : JoinCreate(c, pl)
    \/ \E c \in Conns : Removed(c)
    \/ \E c \in Conns : Close(c)

\* Clients whose join payload carries neither terrain nor curve.
ClientSteps == ClientStepsWith({NoJoinPayload})

RaceSteps ==
    \/ \E c \in Conns, pl \in {{}, {TRUE}, {FALSE}} : SetReady(c, pl)
    \/ \E c \in Conns : Finish(c)
    \/ \E c \in Conns : StartNow(c)
    \/ \E r \in RoomIds : PregameTimerFire(r)
    \/ \E r \in RoomIds : RaceTimerFire(r)

CommandSteps ==
    \/ \E c \in Conns, th \in {{}} \cup {{v} : v \in ThrottleValues},
          ax \in {{}, {1}} : Input(c, TRUE, th, ax)
    \/ \E c \in Conns : Input(c, FALSE, {}, {})
    \/ \E c \in Conns, sp \in {{}} \cup {{v} : v \in SpeedValues} :
          Config(c, Tuning(sp, {}, {}, {}, {}))

WorkerSteps ==
    \/ \E r \in RoomIds : MainOnMessage(r)
    \/ \E r \in RoomIds : WorkerProcess(r)
    \/ \E r \in RoomIds : WorkerCrash(r)
    \/ \E r \in RoomIds : WorkerExit(r)
    \/ \E r \in RoomIds : TickTimerFire(r)
    \/ \E r \in RoomIds : PhysicsTimerFire(r)

\* The whole program.
Next ==
    \/ ClockTick
    \/ ClientStepsWith(JoinPayloads)
    \/ RaceSteps
    \/ CommandSteps
    \/ WorkerSteps

Spec == Init /\ [][Next]_vars

\* ---- scenarios ------------------------------------------------------------
\* Each scenario restricts the environment of the whole program (which
\* clients are connected, how many room ids are left, which commands the
\* clients send, whether worker threads get to run); all its behaviours are
\* behaviours of Spec.
\*
\* Room lifecycle: every client, one room id left, the clock, every
\* lifecycle command and both countdowns; worker threads are not scheduled.
NextLifecycle ==
    \/ ClockTick
    \/ ClientSteps
    \/ RaceSteps

SpecLifecycle ==
    InitWith(Clients, MaxRooms, BOOLEAN) /\ [][NextLifecycle]_vars

\* One player and its room's engine: join, removed, close, input, config and
\* every step of the worker and of its message ports.
NextEngine ==
    \/ ClientSteps
    \/ CommandSteps
    \/ WorkerSteps

SpecEngine ==
    InitWith({1}, MaxRooms, {FALSE}) /\ [][NextEngine]_vars

\* Teardown: every client, one room id left, join, removed, close and
\* every step of the worker and of its message ports (no input is sent, so
\* no command raises in the worker).
NextTeardown ==
    \/ ClientSteps
    \/ \E r \in RoomIds : MainOnMessage(r)
    \/ \E r \in RoomIds : WorkerProcess(r)
    \/ \E r \in RoomIds : WorkerExit(r)
    \/ \E r \in RoomIds : TickTimerFire(r)
    \/ \E r \in RoomIds : PhysicsTimerFire(r)

SpecTeardown ==
    InitWith(Clients, MaxRooms, {FALSE}) /\ [][NextTeardown]_vars

\* Tuning: one player and its room's engine; join, removed, config
\* commands carrying no tuning field, one of them, two of them or all five,
\* and the worker handling its commands.
ConfigPayloads ==
    {Tuning({}, {}, {}, {}, {}), Tuning({2}, {}, {}, {}, {}),
     Tuning({}, {2}, {}, {}, {}), Tuning({}, {}, {2}, {2}, {}),
     Tuning({}, {}, {}, {}, {500}), Tuning({2}, {2}, {2}, {2}, {500})}

NextConfig ==
    \/ \E c \in Conns : JoinExisting(c, NoJoinPayload)
    \/ \E c \in Conns : JoinCreate(c, NoJoinPayload)
    \/ \E c \in Conns : Removed(c)
    \/ \E c \in Conns, cfg \in ConfigPayloads : Config(c, cfg)
    \/ \E r \in RoomIds : MainOnMessage(r)
    \/ \E r \in RoomIds : WorkerProcess(r)

SpecConfig ==
    InitWith({1}, MaxRooms, {FALSE}) /\ [][NextConfig]_vars

\* Capacity: every connection and every room id.  The connections join for
\* the first time in the order in which they connected; only the first of
\* them goes on to send removed, join again, startNow or disconnect.  The
\* workers handle their commands; their messages to the main process stay
\* unhandled.
Leavers == {1}

InTurn(c) ==
    IF conns[c].roomId # 0 THEN c \in Leavers
    ELSE \A d \in Conns : d < c => conns[d].roomId # 0

NextCapacity ==
    \/ \E c \in Conns : InTurn(c) /\ JoinExisting(c, NoJoinPayload)
    \/ \E c \in Conns : InTurn(c) /\ JoinCreate(c, NoJoinPayload)
    \/ \E c \in Leavers : Removed(c)
    \/ \E c \in Leavers : Close(c)
    \/ \E c \in Leavers : StartNow(c)
    \/ \E r \in RoomIds : WorkerProcess(r)

SpecCapacity ==
    InitWith(Conns, 1, {TRUE}) /\ [][NextCapacity]_vars

\* ---- properties ------------------------------------------------------------
PhaseIndex(phase) ==
    CHOOSE i \in 1..Len(Phases) : Phases[i] = phase

\* C1: a room's phase only moves along lobby -> pregame -> racecountdown ->
\* racing -> finished, one step at a time, and never back.
C1_PhaseOneStepForward ==
    [][\A r \in RoomIds :
         (r \in registry /\ r \in registry') =>
            PhaseIndex(rooms'[r].phase) - PhaseIndex(rooms[r].phase)
                \in {0, 1}]_vars

\* C2: when a player on the roster disconnects while other players remain,
\* the room stays in the registry, its worker keeps running and the other
\* players' roster entries are unchanged.
C2_DisconnectKeepsSharedRoom ==
    [][\A c \in Conns :
         LET r == conns[c].roomId IN
         ( /\ conns[c].open /\ ~conns'[c].open
           /\ r # 0 /\ r \in registry
           /\ c \in Ids(rooms[r].players)
           /\ Ids(rooms[r].players) # {c} )
         => /\ r \in registry'
            /\ wstatus'[r] = wstatus[r]
            /\ Without(rooms'[r].players, c) = Without(rooms[r].players, c)
      ]_vars

\* C3: when the last player of a room's roster leaves, by 'removed' or by
\* disconnecting, the room is discarded from the registry, its countdown
\* timers are cleared and its worker is stopped.
C3_LastLeaveDiscardsRoom ==
    [][\A r \in RoomIds, c \in Conns :
         ( /\ r \in registry
           /\ Ids(rooms[r].players) = {c}
           /\ \/ r \notin registry'
              \/ c \notin Ids(rooms'[r].players)
              \/ conns[c].open /\ ~conns'[c].open /\ conns[c].roomId = r )
         => /\ r \notin registry'
            /\ timers'[r] = NoTimers
            /\ wstatus'[r] # "alive"
      ]_vars

\* C4: no live worker (terminate() not called, not exited) belongs to a room
\* that is no longer in the registry.
C4_NoOrphanedWorker ==
    \A r \in RoomIds : wstatus[r] = "alive" => r \in registry

\* The worker of room r handles, in this step, a command of one of the types.
Handles(r, types) ==
    /\ Runnable(r)
    /\ inbox[r] # <<>>
    /\ Head(inbox[r]).type \in types
    /\ inbox'[r] = Tail(inbox[r])
    /\ wstatus'[r] = wstatus[r]

\* C5: a room's engine handles its init command before it handles any
\* addPlayer or input (init is what arms physicsInterval).
C5_InitBeforeAddPlayer ==
    [][\A r \in RoomIds :
         Handles(r, {"addPlayer", "input"}) => eng[r].physicsInterval]_vars

AddPlayerCount(msgs, p) ==
    Cardinality({i \in 1..Len(msgs) :
                    msgs[i].type = "addPlayer" /\ msgs[i].playerId = p})

\* C6: commands reach the engine exactly once: in every step of the main
\* process the commands posted to a live worker hold exactly one addPlayer
\* for a player the step puts on the roster, and none for any other player.
C6_ExactlyOneAddPlayerPerJoin ==
    [][\A r \in RoomIds, p \in Conns :
         (Len(inbox'[r]) >= Len(inbox[r]) /\ wstatus'[r] = "alive") =>
            LET posted == SubSeq(inbox'[r], Len(inbox[r]) + 1, Len(inbox'[r]))
                joined == /\ p \notin Ids(rooms[r].players)
                          /\ p \in Ids(rooms'[r].players)
            IN  AddPlayerCount(posted, p) = IF joined THEN 1 ELSE 0]_vars

\* C7: once every command of a room is delivered, the throttle and the max
\* speed in force for a simulated player are the ones carried by the last
\* input and the last config the orchestrator received for that player.
C7_LastCommandInForce ==
    \A r \in RoomIds, p \in Conns :
        ( /\ wstatus[r] = "alive"
          /\ closures[r].workerReady
          /\ inbox[r] = <<>>
          /\ eng[r].players[p].present )
        => /\ lastIn[r][p].throttle # {} =>
                eng[r].players[p].throttle \in lastIn[r][p].throttle
           /\ lastIn[r][p].speed # {} =>
                eng[r].players[p].speed \in lastIn[r][p].speed

\* C8: once the engine has handled stop (and no start since), it posts no
\* further tick and no further stateUpdate.
C8_NoEmissionAfterStop ==
    [][\A r \in RoomIds :
         eng[r].stopped => Len(outbox'[r]) <= Len(outbox[r])]_vars

\* C9: no physics:update is sent for a room that is not in the registry,
\* also when a stateUpdate of its worker is handled after the removal.
C9_NoPhysicsUpdateAfterRemoval ==
    \A e \in events : e.type = "physics:update" => e.room \in registry

\* A stateUpdate of a removed room has just been handled while a client that
\* still names the room is connected.
C9_Witness ==
    /\ handled.type = "stateUpdate"
    /\ handled.room \notin registry
    /\ \E c \in Conns : conns[c].open /\ conns[c].roomId = handled.room
    /\ events = {}

\* C10: a room is never in racing while its roster is non-empty and every
\* player on it has a recorded finish.
C10_RacingEndsWhenAllFinished ==
    \A r \in registry :
        rooms[r].phase = "racing" =>
            ~(rooms[r].players # <<>> /\ AllFinished(rooms[r].players))

AllReady(players) ==
    \A i \in 1..Len(players) : players[i].ready

\* C11: when a setReady makes every player of a non-empty lobby room's
\* roster ready, the room enters pregame and its pregame countdown runs.
C11_AllReadyEntersPregame ==
    [][\A r \in RoomIds :
         ( /\ r \in registry /\ r \in registry'
           /\ rooms[r].phase = "lobby"
           /\ Ids(rooms'[r].players) = Ids(rooms[r].players)
           /\ ~AllReady(rooms[r].players)
           /\ rooms'[r].players # <<>>
           /\ AllReady(rooms'[r].players) )
         => /\ rooms'[r].phase = "pregame"
            /\ timers'[r].pre > 0
      ]_vars

\* C12: a startNow changes something only when ALLOW_FORCE_START is 'true'
\* and the sender's room is in lobby (that room then enters pregame); in
\* every other case the registry and every room's phase, timers and roster
\* are unchanged.
C12_StartNowOnlyFromLobbyWithFlag ==
    [][handled'.type = "startNow" =>
         LET r == handled'.room IN
         IF /\ allowForceStart
            /\ r \in registry
            /\ rooms[r].phase = "lobby"
         THEN /\ rooms'[r].phase = "pregame"
              /\ rooms'[r].players = rooms[r].players
              /\ registry' = registry
              /\ \A q \in RoomIds \ {r} :
                    rooms'[q] = rooms[q] /\ timers'[q] = timers[q]
         ELSE /\ rooms' = rooms
              /\ timers' = timers
              /\ registry' = registry
      ]_vars

\* A startNow has just been handled, with the flag set, for a room whose
\* pregame countdown was already running, and the countdown went on.
C12_Witness ==
    /\ handled.type = "startNow"
    /\ allowForceStart
    /\ handled.room \in registry
    /\ rooms[handled.room].phase = "pregame"
    /\ timers[handled.room].pre \in 1..(ForceStartSeconds - 1)

\* The start positions of a roster are the ordinals 1..n, each held once,
\* and follow the join order (joinedAt, then the order of insertion).
StartOrderOk(players) ==
    LET n == Len(players) IN
    /\ {players[i].position : i \in 1..n} = 1..n
    /\ \A i, j \in 1..n :
          \/ players[i].joinedAt < players[j].joinedAt
          \/ players[i].joinedAt = players[j].joinedAt /\ i < j
          => players[i].position < players[j].position

\* C13: in the step in which a room's pregame countdown reaches 0 the room
\* enters racecountdown and its roster holds the start positions 1..n in
\* join order.
C13_StartPositionsByJoinOrder ==
    [][\A r \in RoomIds :
         ( /\ r \in registry /\ r \in registry'
           /\ timers[r].pre = 1 /\ timers'[r].pre = 0 )
         => /\ rooms'[r].phase = "racecountdown"
            /\ Ids(rooms'[r].players) = Ids(rooms[r].players)
            /\ StartOrderOk(rooms'[r].players)
      ]_vars

\* The pregame countdown of a room with two players who joined at different
\* times has just reached 0.
C13_Witness ==
    \E r \in registry :
        /\ rooms[r].phase = "racecountdown"
        /\ timers[r] = [pre |-> 0, race |-> RaceCountdownSeconds]
        /\ Len(rooms[r].players) = 2
        /\ rooms[r].players[1].joinedAt < rooms[r].players[2].joinedAt
        /\ rooms[r].players[1].position = 1
        /\ rooms[r].players[2].position = 2

\* C14: in the step in which a room's race countdown reaches 0 the room
\* enters racing, records the time as raceStartAt and sends race:start to
\* every client of the room; race:start is sent in no other step and only
\* for a room with no race start on record; the record is kept as long as
\* the room exists, and a removed room never returns to the registry.
C14_RaceStartOnceAfterCountdown ==
    [][\A r \in RoomIds :
         LET atZero == /\ r \in registry /\ r \in registry'
                       /\ timers[r].race = 1 /\ timers'[r].race = 0
             sent == \E e \in events' : e.type = "race:start" /\ e.room = r
         IN  /\ atZero =>
                  /\ rooms'[r].phase = "racing"
                  /\ rooms'[r].raceStartAt = now
                  /\ \A c \in Conns :
                        conns[c].open /\ conns[c].roomId = r =>
                            Event("race:start", r, c, now) \in events'
             /\ sent => atZero /\ rooms[r].raceStartAt = 0
             /\ (r \in registry /\ r \in registry'
                    /\ rooms[r].raceStartAt # 0) =>
                  rooms'[r].raceStartAt = rooms[r].raceStartAt
             /\ (r < nextRoom /\ r \notin registry) => r \notin registry'
      ]_vars

\* race:start has just been sent to two clients of a room that is now racing.
C14_Witness ==
    \E r \in registry :
        /\ rooms[r].phase = "racing"
        /\ rooms[r].raceStartAt = now
        /\ timers[r] = NoTimers
        /\ \A c \in Clients : Event("race:start", r, c, now) \in events

\* The rooms of the registry that are in lobby with a roster below the cap.
LobbyBelowCap ==
    {q \in registry : /\ rooms[q].phase = "lobby"
                      /\ Len(rooms[q].players) < MAX_PLAYERS_PER_ROOM}

\* C15: a join puts the sender on the roster of the earliest-created room
\* that is in lobby below the cap, and creates no room; when there is no
\* such room it creates one room and puts the sender on its roster.  No
\* other roster changes, and a player comes onto a roster only by a join,
\* only of a room in lobby that was below the cap.
C15_JoinPlacedInFirstOpenRoom ==
    [][/\ handled'.type = "join" =>
            LET c == handled'.conn
                r == conns'[c].roomId
            IN  /\ r \in registry'
                /\ c \in Ids(rooms'[r].players)
                /\ IF LobbyBelowCap # {}
                   THEN /\ r \in LobbyBelowCap
                        /\ \A q \in LobbyBelowCap : r <= q
                        /\ registry' = registry
                   ELSE /\ r \notin registry
                        /\ registry' = registry \cup {r}
                /\ \A q \in RoomIds \ {r} :
                      rooms'[q].players = rooms[q].players
       /\ \A r \in RoomIds, c \in Conns :
            (r \in registry' /\ c \in Ids(rooms'[r].players)
                /\ ~(r \in registry /\ c \in Ids(rooms[r].players)))
            => /\ handled'.type = "join" /\ handled'.conn = c
               /\ rooms'[r].phase = "lobby"
               /\ r \in registry => r \in LobbyBelowCap
      ]_vars

\* A join has just been placed in the first of two rooms that were both in
\* lobby below the cap; it filled that room.
C15_Witness ==
    /\ handled.type = "join"
    /\ handled.room = 1
    /\ registry = {1, 2}
    /\ rooms[1].phase = "lobby" /\ rooms[2].phase = "lobby"
    /\ Len(rooms[1].players) = MAX_PLAYERS_PER_ROOM
    /\ rooms[2].players # <<>>
    /\ handled.conn \in Ids(rooms[1].players)

\* C16: no roster ever holds more than MAX_PLAYERS_PER_ROOM players.
C16_RosterWithinCap ==
    \A r \in RoomIds : Len(rooms[r].players) <= MAX_PLAYERS_PER_ROOM

\* A join has just been handled while another room was full: the joiner was
\* placed in a different room and the full room still holds the cap.
C16_Witness ==
    /\ handled.type = "join"
    /\ \E r \in registry :
          /\ Len(rooms[r].players) = MAX_PLAYERS_PER_ROOM
          /\ rooms[r].phase = "lobby"
          /\ handled.room # r
          /\ handled.conn \notin Ids(rooms[r].players)

\* C17: a setReady, input, config or finish that lacks its payload (setReady,
\* input), or whose connection names a room that is gone or a room on whose
\* roster the sender no longer is, is dropped silently: no fault is raised,
\* the registry, the rooms, the timers and the posted commands are
\* unchanged, and nothing is sent to any client.
C17_MalformedDroppedSilently ==
    [][\A c \in Conns :
         LET r == conns[c].roomId IN
         ( /\ handled'.conn = c
           /\ handled'.type \in {"setReady", "input", "config", "finish"}
           /\ r # 0
           /\ \/ ~handled'.payload
              \/ r \notin registry
              \/ c \notin Ids(rooms[r].players) )
         => /\ ~fault'
            /\ registry' = registry
            /\ rooms' = rooms
            /\ timers' = timers
            /\ handled'.type # "config" => inbox' = inbox
            /\ events' = {}
      ]_vars

\* C18: in the step in which the worker of a registered room dies, the
\* room's worker handle is invalidated and the room is torn down: it leaves
\* the registry and its timers are cleared; and no join is ever placed in a
\* room whose worker is dead.
C18_EngineLossTearsDownRoom ==
    [][/\ \A r \in RoomIds :
            (r \in registry /\ wstatus[r] # "dead" /\ wstatus'[r] = "dead")
            => /\ ~rooms'[r].physicsWorker
               /\ r \notin registry'
               /\ timers'[r] = NoTimers
       /\ handled'.type = "join" => wstatus'[handled'.room] # "dead"
      ]_vars

\* C19: when a live worker takes an input command for a player it knows,
\* it goes on running and the command is consumed; the player's throttle
\* becomes the carried throttle, or stays when none is carried; the
\* player's stick axis becomes the carried axis, or stays when none is
\* carried; the other players are unchanged.
C19_InputUpdatesOnlyCarriedFields ==
    [][\A r \in RoomIds :
         ( /\ wstatus[r] = "alive"
           /\ inbox[r] # <<>>
           /\ Head(inbox[r]).type = "input"
           /\ eng[r].players[Head(inbox[r]).playerId].present
           /\ inbox'[r] = Tail(inbox[r]) \/ wstatus'[r] = "dead" )
         => LET data == Head(inbox[r])
                old == eng[r].players[data.playerId]
                new == eng'[r].players[data.playerId]
            IN  /\ wstatus'[r] = "alive"
                /\ inbox'[r] = Tail(inbox[r])
                /\ new.throttle = IF data.throttle # {}
                                  THEN Val(data.throttle) ELSE old.throttle
                /\ new.axis = IF data.axis # {}
                              THEN Val(data.axis) ELSE old.axis
                /\ new.speed = old.speed
                /\ \A q \in Conns \ {data.playerId} :
                      eng'[r].players[q] = eng[r].players[q]
      ]_vars

\* The value a tuning field has after a config: the carried one, else the
\* one it had.
Carried(opt, old) == IF opt # {} THEN Val(opt) ELSE old

\* C20: when a worker handles a config for a player it knows, each of max
\* speed, acceleration, pitch rate, roll rate and damping becomes the value
\* the config carries, or stays when the config does not carry it, and
\* nothing else of the engine changes; a config for a player the worker
\* does not know changes nothing.
C20_ConfigUpdatesCarriedTuning ==
    [][\A r \in RoomIds :
         Handles(r, {"config"}) =>
            LET data == Head(inbox[r])
                old == eng[r].players[data.playerId]
            IN  IF ~old.present THEN eng'[r] = eng[r]
                ELSE eng'[r] = [eng[r] EXCEPT ![
                       "players"][data.playerId] =
                         [old EXCEPT
                            !.speed = Carried(data.speed, @),
                            !.accel = Carried(data.acceleration, @),
                            !.pitchVel = Carried(data.pitchVelocity, @),
                            !.rollVel = Carried(data.rollVelocity, @),
                            !.damping = Carried(data.damping, @)]]
      ]_vars
\* ---- the start grid ------------------------------------------------------
\* CurveLen clients join one room, each join payload carrying no curve, an
\* empty curve or the straight-line curve; the main process handles 'ready'
\* and the worker handles its commands.
NextStartGrid ==
    \/ \E c \in 1..CurveLen, cv \in CurvePayloads :
          JoinExisting(c, JoinPayload({}, cv))
    \/ \E c \in 1..CurveLen, cv \in CurvePayloads :
          JoinCreate(c, JoinPayload({}, cv))
    \/ \E r \in RoomIds : MainOnMessage(r)
    \/ \E r \in RoomIds : WorkerProcess(r)

SpecStartGrid == InitWith(1..CurveLen, MaxRooms, {FALSE})
                     /\ [][NextStartGrid]_vars

PresentPlayers(e) == {p \in Conns : e.players[p].present}

\* C21: in an engine initialised with the n-point straight-line curve, each
\* of the first n players is placed, when it is added, further along the
\* curve than every player added before it (so the n start positions are
\* pairwise distinct and follow the order of addition).
C21_StartPositionsAlongCurve ==
    [][\A r \in RoomIds, p \in Conns :
          (/\ eng[r].physicsInterval
           /\ eng[r].curvePoints = {Curve}
           /\ ~eng[r].players[p].present
           /\ eng'[r].players[p].present
           /\ Cardinality(PresentPlayers(eng[r])) < Len(Curve))
          => \A q \in PresentPlayers(eng[r]) :
                 eng[r].players[q].pos < eng'[r].players[p].pos]_vars

\* ---- the physics tick ----------------------------------------------------
\* Every client, one room id left; every join payload carries the curve,
\* the one that creates the room carries terrain or none; removed, and the
\* worker handling its commands and running its fixed tick.
TickPayloads == {JoinPayload(f, {Curve}) : f \in TerrainPayloads}

NextTick ==
    \/ \E c \in Clients : JoinExisting(c, JoinPayload({}, {Curve}))
    \/ \E c \in Clients, pl \in TickPayloads : JoinCreate(c, pl)
    \/ \E c \in Clients : Removed(c)
    \/ \E r \in RoomIds : MainOnMessage(r)
    \/ \E r \in RoomIds : WorkerProcess(r)
    \/ \E r \in RoomIds : PhysicsTimerFire(r)

SpecTick == InitWith(Clients, MaxRooms, {FALSE}) /\ [][NextTick]_vars

\* The physics tick of room r is the latest step.
Ticked(r) == handled.type = "physicsTick" /\ handled.room = r

Snapshots(box) == SelectSeq(box, LAMBDA m : m.type = "stateUpdate")

\* The worker of room r handles a command of the given type in this step.
WorkerHandles(r, type) ==
    /\ Runnable(r)
    /\ inbox[r] # <<>>
    /\ Head(inbox[r]).type = type
    /\ inbox'[r] = Tail(inbox[r])
    /\ wstatus'[r] = wstatus[r]

Faulty(e, p) ==
    e.players[p].present /\ ~(e.players[p].rotFinite /\ e.players[p].posFinite)

Commanders == {NumConns}

WorkersIdle == \A r \in RoomIds : inbox[r] = <<>>

WorkersStarted == \A r \in RoomIds : wstatus[r] = "alive" => eng[r].running

IssuedBy(c) ==
    \/ \E pl \in {{TRUE}, {FALSE}} : SetReady(c, pl)
    \/ \E th \in ThrottleValues : Input(c, TRUE, {th}, {1})
    \/ \E sp \in SpeedValues : Config(c, Tuning({sp}, {}, {}, {}, {}))
    \/ Finish(c)
    \/ Removed(c)
    \/ Close(c)

NextIsolation ==
    \/ \E c \in Clients :
          conns[c].roomId = 0 /\ JoinExisting(c, NoJoinPayload)
    \/ \E c \in Clients :
          /\ conns[c].roomId = 0
          /\ WorkersStarted /\ WorkersIdle
          /\ JoinCreate(c, NoJoinPayload)
    \/ \E c \in Clients : StartNow(c)
    \/ \E c \in Commanders : WorkersIdle /\ IssuedBy(c)
    \/ \E r \in RoomIds : MainOnMessage(r)
    \/ \E r \in RoomIds : WorkerProcess(r)
    \/ \E r \in RoomIds : PhysicsTimerFire(r)

SpecIsolation == InitWith(Clients, 1, {TRUE}) /\ [][NextIsolation]_vars

\* What the claim protects of room b: roster and phase, timers, and the
\* player simulation states of its engine.
RoomState(b) ==
    <<rooms[b].players, rooms[b].phase, rooms[b].pregameTimer,
      rooms[b].raceTimer, timers[b], eng[b].players>>

NextDelivery ==
    \/ \E c \in Clients :
          conns[c].roomId = 0 /\ JoinExisting(c, NoJoinPayload)
    \/ \E c \in Clients :
          /\ conns[c].roomId = 0
          /\ WorkersStarted /\ WorkersIdle
          /\ JoinCreate(c, NoJoinPayload)
    \/ \E c \in Commanders : WorkersStarted /\ WorkersIdle /\ Removed(c)
    \/ \E c \in Clients : WorkersStarted /\ WorkersIdle /\ StartNow(c)
    \/ \E c \in Commanders : WorkersStarted /\ WorkersIdle /\ Finish(c)
    \/ \E r \in RoomIds : PregameTimerFire(r)
    \/ \E r \in RoomIds : RaceTimerFire(r)
    \/ \E r \in RoomIds : MainOnMessage(r)
    \/ \E r \in RoomIds : WorkerProcess(r)
    \/ \E r \in RoomIds : PhysicsTimerFire(r)

SpecDelivery == InitWith(Clients, 1, {TRUE}) /\ [][NextDelivery]_vars

RoomScoped ==
    {"room:update", "physics:update", "pregame:tick", "racecountdown:tick",
     "race:start", "race:end", "player:finished"}

\* C25: every room-scoped event of room R sent by a step goes to an open
\* connection whose current room (its roomId) is R.
C25_RoomEventsStayInRoom ==
    \A e \in events :
        e.type \in RoomScoped
            => conns[e.to].open /\ conns[e.to].roomId = e.room

\* A room-scoped event other than room:update is delivered in room R while
\* another open connection is in a different room.
C25_Witness ==
    \E e \in events : \E d \in Clients :
        /\ e.type \in RoomScoped \ {"room:update"}
        /\ d # e.to
        /\ conns[d].open
        /\ conns[d].roomId \in registry \ {e.room}

\* ---- start and stop --------------------------------------------------------
\* One client creates a room; start and stop commands are then posted to
\* the room's worker in any order; the worker handles them and its tick
\* timer fires.
PostCommand(r, msg) ==
    /\ ~fault
    /\ UNCHANGED calc
    /\ handled' = NotHandled
    /\ wstatus[r] = "alive"
    /\ Len(inbox[r]) < MaxInbox
    /\ inbox' = postMessage(wstatus, inbox, r, <<msg>>)
    /\ events' = {}
    /\ UNCHANGED <<conns, registry, nextRoom, rooms, timers, closures,
                   wstatus, outbox, eng, now, allowForceStart, fault, lastIn>>

NextStartStop ==
    \/ \E c \in Clients : JoinCreate(c, NoJoinPayload)
    \/ \E r \in RoomIds : PostCommand(r, StartMsg)
    \/ \E r \in RoomIds : PostCommand(r, StopMsg)
    \/ \E r \in RoomIds : MainOnMessage(r)
    \/ \E r \in RoomIds : WorkerProcess(r)
    \/ \E r \in RoomIds : TickTimerFire(r)

SpecStartStop == InitWith(Clients, 1, {FALSE}) /\ [][NextStartStop]_vars

\* The engine's own state, without the history of stop.
EngineState(e) == [e EXCEPT !.stopped = FALSE]

\* C26: a start handled while running and a stop handled while stopped
\* leave the engine as it was; after a start exactly one tick timer is
\* armed and after a stop none is; no other step arms or clears a tick
\* timer, so at most one is armed, exactly when the last of the start and
\* stop commands handled was a start.
C26_StartStopIdempotent ==
    [][\A r \in RoomIds :
          /\ WorkerHandles(r, "start")
                => /\ eng[r].running
                        => EngineState(eng'[r]) = EngineState(eng[r])
                   /\ eng'[r].running /\ eng'[r].interval
                   /\ eng'[r].tickTimers = 1
          /\ WorkerHandles(r, "stop")
                => /\ ~eng[r].running
                        => EngineState(eng'[r]) = EngineState(eng[r])
                   /\ ~eng'[r].running /\ ~eng'[r].interval
                   /\ eng'[r].tickTimers = 0
          /\ ~(WorkerHandles(r, "start") \/ WorkerHandles(r, "stop"))
                => eng'[r].tickTimers = eng[r].tickTimers]_vars

\* The latest step handled a start that found the engine running, or a
\* stop that found it stopped.
C26_Witness ==
    \/ handled.type = "start" /\ handled.payload
    \/ handled.type = "stop" /\ ~handled.payload

\* ---- math.js: normalisation ------------------------------------------------
\* The operands of the kernel are vectors and quaternions with small integer
\* components.  A component a normalisation computes is kept in the form
\* n * t / sqrt(r), with t a trigonometric factor of the angle: r = 1 and
\* t = One is the integer n, and r = 0 is a division by a zero length,
\* which is never a finite number (0 * Infinity is NaN).
Components == (0 - MaxComponent)..MaxComponent

Angles == 0..MaxAngle

Vectors == [x : Components, y : Components, z : Components]

Quaternions == [x : Components, y : Components, z : Components, w : Components]

One == [f |-> "one", of |-> 0]

Exact(n) == [n |-> n, r |-> 1, t |-> One]

\* n * (1 / l), l the square root of radicand.
Over(n, radicand) == [n |-> n, r |-> radicand, t |-> One]

IsFiniteComponent(c) == c.r > 0

\* The value under the square root of Vector3.length(); the length is 0
\* exactly when it is.
Vector3_length(v) == v.x * v.x + v.y * v.y + v.z * v.z

Quaternion_length(q) == q.x * q.x + q.y * q.y + q.z * q.z + q.w * q.w

Vector3_normalize(v) ==
    LET l == Vector3_length(v)
    IN  IF l > 0
        THEN [x |-> Over(v.x, l), y |-> Over(v.y, l), z |-> Over(v.z, l)]
        ELSE [x |-> Exact(v.x), y |-> Exact(v.y), z |-> Exact(v.z)]

Identity == [x |-> Exact(0), y |-> Exact(0), z |-> Exact(0), w |-> Exact(1)]

\* normalize without its "if (l === 0) return this.set(0, 0, 0, 1)".
Quaternion_normalizeNoGuard(q) ==
    LET l == Quaternion_length(q)
    IN  [x |-> Over(q.x, l), y |-> Over(q.y, l), z |-> Over(q.z, l),
         w |-> Over(q.w, l)]

Quaternion_normalize(q) ==
    LET l == Quaternion_length(q)
    IN  IF l = 0 THEN Identity
        ELSE [x |-> Over(q.x, l), y |-> Over(q.y, l), z |-> Over(q.z, l),
              w |-> Over(q.w, l)]

\* s = sin(angle / 2) / l scales the axis; w is cos(angle / 2).
Quaternion_setFromAxisAngle(axis, angle) ==
    LET l == Vector3_length(axis)
        s == [f |-> "sinHalf", of |-> angle]
    IN  IF l = 0 THEN Identity
        ELSE [x |-> [n |-> axis.x, r |-> l, t |-> s],
              y |-> [n |-> axis.y, r |-> l, t |-> s],
              z |-> [n |-> axis.z, r |-> l, t |-> s],
              w |-> [n |-> 1, r |-> 1, t |-> [f |-> "cosHalf", of |-> angle]]]

\* One call of a normalising function on operands of the sets above.
NormalizeCalls ==
    {[fn |-> "Quaternion.normalize", q |-> q, out |-> {}] : q \in Quaternions}
    \cup {[fn |-> "Vector3.normalize", v |-> v, out |-> {}] : v \in Vectors}
    \cup {[fn |-> "Quaternion.setFromAxisAngle", axis |-> v, angle |-> a,
           out |-> {}] : v \in Vectors, a \in Angles}

\* A kernel call leaves the server and the workers as they are.
Returns(result) ==
    /\ calc.out = {}
    /\ calc' = [calc EXCEPT !.out = {result}]
    /\ UNCHANGED <<conns, registry, nextRoom, rooms, timers, closures,
                   wstatus, inbox, outbox, eng, now, allowForceStart, fault,
                   events, lastIn, handled>>

CallQuaternionNormalize ==
    /\ calc.fn = "Quaternion.normalize"
    /\ Returns(Quaternion_normalize(calc.q))

CallVector3Normalize ==
    /\ calc.fn = "Vector3.normalize"
    /\ Returns(Vector3_normalize(calc.v))

CallSetFromAxisAngle ==
    /\ calc.fn = "Quaternion.setFromAxisAngle"
    /\ Returns(Quaternion_setFromAxisAngle(calc.axis, calc.angle))

NextNormalize ==
    \/ CallQuaternionNormalize
    \/ CallVector3Normalize
    \/ CallSetFromAxisAngle

\* The server has just been constructed, with no connection open, and one
\* call of the kernel is about to be made.
InitCall(calls) ==
    /\ InitProgram({}, 1, {FALSE})
    /\ calc \in calls

InitNormalize == InitCall(NormalizeCalls)

SpecNormalize == InitNormalize /\ [][NextNormalize]_vars

ZeroVector == [x |-> 0, y |-> 0, z |-> 0]

ZeroQuaternion == [x |-> 0, y |-> 0, z |-> 0, w |-> 0]

\* The components of a result.
ComponentsOf(result) == {result[k] : k \in DOMAIN result}

\* C27: Quaternion.normalize of (0,0,0,0) and setFromAxisAngle with a
\* zero-length axis and any angle return the identity (0,0,0,1),
\* Vector3.normalize of the zero vector returns (0,0,0), and no component
\* of any of these results is NaN or infinite.
C27_DegenerateInputsDefined ==
    \A result \in calc.out :
        /\ calc.fn = "Quaternion.normalize" /\ calc.q = ZeroQuaternion
              => result = Identity
        /\ calc.fn = "Quaternion.setFromAxisAngle" /\ calc.axis = ZeroVector
              => result = Identity
        /\ calc.fn = "Vector3.normalize" /\ calc.v = ZeroVector
              => result = [x |-> Exact(0), y |-> Exact(0), z |-> Exact(0)]
        /\ \A c \in ComponentsOf(result) : IsFiniteComponent(c)

\* setFromAxisAngle has returned for a zero-length axis and a non-zero
\* angle.
C27_Witness ==
    /\ calc.fn = "Quaternion.setFromAxisAngle"
    /\ calc.axis = ZeroVector
    /\ calc.angle = MaxAngle
    /\ calc.out = {Identity}

\* ---- math.js: products ------------------------------------------------------
\* A JavaScript number hi * 2^53 + lo with small hi and lo: below 2^53
\* every integer is a double, from 2^53 on only the multiples of a power
\* of two are, and each sum and product is rounded to the nearest double,
\* a tie to the one whose significand is even.
Double(hi, lo) == [hi |-> hi, lo |-> lo]

Small(n) == Double(0, n)

Big == Double(1, 0)

RECURSIVE PowerOfTwoAbove(_, _)
\* The least power of two, from p on, that is greater than n.
PowerOfTwoAbove(p, n) == IF p > n THEN p ELSE PowerOfTwoAbove(2 * p, n)

\* The distance between neighbouring doubles around h * 2^53 + l, h >= 1.
Ulp(h, l) ==
    LET above == PowerOfTwoAbove(1, h)
    IN  IF l < 0 /\ 2 * h = above THEN h ELSE above

\* The multiple of u nearest to l, a tie going to the even multiple.
ToNearestEven(l, u) ==
    LET q == l \div u
        rest == l % u
    IN  IF 2 * rest < u THEN q * u
        ELSE IF 2 * rest > u THEN (q + 1) * u
        ELSE IF q % 2 = 0 THEN q * u ELSE (q + 1) * u

Round(hi, lo) ==
    IF hi = 0 THEN Double(0, lo)
    ELSE IF hi > 0 THEN Double(hi, ToNearestEven(lo, Ulp(hi, lo)))
    ELSE Double(hi, 0 - ToNearestEven(0 - lo, Ulp(0 - hi, 0 - lo)))

Plus(a, b) == Round(a.hi + b.hi, a.lo + b.lo)

Minus(a, b) == Round(a.hi - b.hi, a.lo - b.lo)

\* The product of two numbers of which at most one reaches 2^53.
Times(a, b) == Round(a.hi * b.lo + a.lo * b.hi, a.lo * b.lo)

Negated(a) == Double(0 - a.hi, 0 - a.lo)

\* this.multiply(q): each sum is taken from left to right.
Quaternion_multiply(this, q) ==
    LET x == this.x  y == this.y  z == this.z  w == this.w
        qx == q.x  qy == q.y  qz == q.z  qw == q.w
    IN  [x |-> Minus(Plus(Plus(Times(w, qx), Times(x, qw)), Times(y, qz)),
                     Times(z, qy)),
         y |-> Plus(Plus(Minus(Times(w, qy), Times(x, qz)), Times(y, qw)),
                    Times(z, qx)),
         z |-> Plus(Minus(Plus(Times(w, qz), Times(x, qy)), Times(y, qx)),
                    Times(z, qw)),
         w |-> Minus(Minus(Minus(Times(w, qw), Times(x, qx)), Times(y, qy)),
                     Times(z, qz))]

\* premultiply computing this * q as multiply does.
Quaternion_premultiplyAsMultiply(this, q) == Quaternion_multiply(this, q)

Quaternion_premultiply(this, q) ==
    LET x == this.x  y == this.y  z == this.z  w == this.w
        qx == q.x  qy == q.y  qz == q.z  qw == q.w
    IN  [x |-> Minus(Plus(Plus(Times(qx, w), Times(qw, x)), Times(qy, z)),
                     Times(qz, y)),
         y |-> Minus(Plus(Plus(Times(qy, w), Times(qw, y)), Times(qz, x)),
                     Times(qx, z)),
         z |-> Minus(Plus(Plus(Times(qz, w), Times(qw, z)), Times(qx, y)),
                     Times(qy, x)),
         w |-> Minus(Minus(Minus(Times(qw, w), Times(qx, x)), Times(qy, y)),
                     Times(qz, z))]

Vector3_applyQuaternion(v, q) ==
    LET x == v.x  y == v.y  z == v.z
        qx == q.x  qy == q.y  qz == q.z  qw == q.w
        ix == Minus(Plus(Times(qw, x), Times(qy, z)), Times(qz, y))
        iy == Minus(Plus(Times(qw, y), Times(qz, x)), Times(qx, z))
        iz == Minus(Plus(Times(qw, z), Times(qx, y)), Times(qy, x))
        iw == Minus(Minus(Times(Negated(qx), x), Times(qy, y)), Times(qz, z))
    IN  [x |-> Minus(Plus(Plus(Times(ix, qw), Times(iw, Negated(qx))),
                          Times(iy, Negated(qz))),
                     Times(iz, Negated(qy))),
         y |-> Minus(Plus(Plus(Times(iy, qw), Times(iw, Negated(qy))),
                          Times(iz, Negated(qx))),
                     Times(ix, Negated(qz))),
         z |-> Minus(Plus(Plus(Times(iz, qw), Times(iw, Negated(qz))),
                          Times(ix, Negated(qy))),
                     Times(iy, Negated(qx)))]

\* The operands of a product: a has small integer components, b has
\* components 0, 1 or 2^53.
SmallQuaternions ==
    [x : {Small(n) : n \in Components}, y : {Small(n) : n \in Components},
     z : {Small(n) : n \in Components}, w : {Small(n) : n \in Components}]

WideComponents == {Small(0), Small(1), Big}

WideQuaternions ==
    [x : WideComponents, y : WideComponents, z : WideComponents,
     w : WideComponents]

\* b.multiply(a) and a.premultiply(b) are both to be computed.
ProductCalls ==
    {[fn |-> "products", a |-> a, b |-> b, multiply |-> {}, premultiply |-> {}]
        : a \in SmallQuaternions, b \in WideQuaternions}

KernelOnly ==
    UNCHANGED <<conns, registry, nextRoom, rooms, timers, closures, wstatus,
                inbox, outbox, eng, now, allowForceStart, fault, events,
                lastIn, handled>>

CallMultiply ==
    /\ calc.fn = "products"
    /\ calc.multiply = {}
    /\ calc' = [calc EXCEPT !.multiply = {Quaternion_multiply(calc.b, calc.a)}]
    /\ KernelOnly

CallPremultiply ==
    /\ calc.fn = "products"
    /\ calc.premultiply = {}
    /\ calc' = [calc EXCEPT
                   !.premultiply = {Quaternion_premultiply(calc.a, calc.b)}]
    /\ KernelOnly

NextProduct ==
    \/ CallMultiply
    \/ CallPremultiply

InitProduct == InitCall(ProductCalls)

SpecProduct == InitProduct /\ [][NextProduct]_vars

\* Every component is an integer below 2^53.
IsSmall(q) == \A c \in ComponentsOf(q) : c.hi = 0

UnitVectors ==
    {[x |-> Small(1), y |-> Small(0), z |-> Small(0)],
     [x |-> Small(0), y |-> Small(1), z |-> Small(0)],
     [x |-> Small(0), y |-> Small(0), z |-> Small(1)]}

\* C28 as stated: whenever both have been computed, a.premultiply(b)
\* equals b.multiply(a) component for component.
C28_PremultiplyEqualsMultiply ==
    \A m \in calc.multiply : \A p \in calc.premultiply : p = m

\* C28, amended: when a and b have integer components small enough for
\* every sum to be exact, a.premultiply(b) equals b.multiply(a) component
\* for component, and both turn a vector as a's rotation followed by b's
\* does: multiply applies its argument first and then the receiver,
\* premultiply the receiver first and then its argument.
C28_ProductsAgreeWhenExact ==
    calc.fn = "products" /\ IsSmall(calc.a) /\ IsSmall(calc.b) =>
        /\ \A m \in calc.multiply : \A p \in calc.premultiply : p = m
        /\ \A p \in calc.premultiply : \A v \in UnitVectors :
              Vector3_applyQuaternion(v, p) =
                  Vector3_applyQuaternion(
                      Vector3_applyQuaternion(v, calc.a), calc.b)
        /\ \A m \in calc.multiply : \A v \in UnitVectors :
              Vector3_applyQuaternion(v, m) =
                  Vector3_applyQuaternion(
                      Vector3_applyQuaternion(v, calc.a), calc.b)

\* Both products have been computed for small a and b that do not
\* commute.
C28_Witness ==
    /\ calc.fn = "products"
    /\ IsSmall(calc.a) /\ IsSmall(calc.b)
    /\ calc.multiply # {} /\ calc.premultiply # {}
    /\ calc.multiply # {Quaternion_multiply(calc.a, calc.b)}

\* ---- fbm.js: fbmStandard ----------------------------------------------------
\* Amplitudes and sums are fractions n / d; with a persistence of 1/2 or 1
\* and integer points, frequencies and noise values every product and sum
\* of the loop is exact.
Fraction(n, d) == [n |-> n, d |-> d]

FractionPlus(a, b) == Fraction(a.n * b.d + b.n * a.d, a.d * b.d)

FractionTimes(a, b) == Fraction(a.n * b.n, a.d * b.d)

SameValue(a, b) == a.n * b.d = b.n * a.d

Points == {<<1, 2, 3>>, <<0, 1, 0 - 1>>}

Persistences == {Fraction(1, 2), Fraction(1, 1)}

\* A stub noise function: the value it returns on each call.
NoiseStubs == [1..MaxOctaves -> 0..1]

\* fbmStandard(p, freq, lacunarity, persistence, octaves, noiseFn) on
\* entry: sum = 0, amp = 0.5, f = freq, i = 0, no sample taken yet.
fbmStandardCall(p, freq, lacunarity, persistence, octaves, noiseFn) ==
    [fn |-> "fbmStandard", p |-> p, freq |-> freq, lacunarity |-> lacunarity,
     persistence |-> persistence, octaves |-> octaves, noiseFn |-> noiseFn,
     sum |-> Fraction(0, 1), amp |-> Fraction(1, 2), f |-> freq, i |-> 0,
     samples |-> <<>>, out |-> {}]

FbmCalls ==
    {fbmStandardCall(p, freq, lacunarity, persistence, octaves, noiseFn) :
        p \in Points, freq \in 1..MaxFrequency,
        lacunarity \in 1..MaxLacunarity, persistence \in Persistences,
        octaves \in 0..MaxOctaves, noiseFn \in NoiseStubs}

\* The loop body with the point itself scaled from octave to octave.
fbmOctaveAccumulated(c) ==
    LET from == IF c.samples = <<>> THEN c.p ELSE c.samples[Len(c.samples)]
    IN  [c EXCEPT !.samples = Append(@, [k \in 1..3 |-> from[k] * c.f]),
                  !.sum = FractionPlus(@,
                              FractionTimes(Fraction(c.noiseFn[c.i + 1], 1),
                                            c.amp)),
                  !.f = @ * c.lacunarity,
                  !.amp = FractionTimes(@, c.persistence),
                  !.i = @ + 1]

\* One pass of the loop body: the noise function is called on p * f.
fbmOctave(c) ==
    [c EXCEPT !.samples = Append(@, [k \in 1..3 |-> c.p[k] * c.f]),
              !.sum = FractionPlus(@,
                          FractionTimes(Fraction(c.noiseFn[c.i + 1], 1),
                                        c.amp)),
              !.f = @ * c.lacunarity,
              !.amp = FractionTimes(@, c.persistence),
              !.i = @ + 1]

FbmOctave ==
    /\ calc.fn = "fbmStandard"
    /\ calc.i < calc.octaves
    /\ calc' = fbmOctave(calc)
    /\ KernelOnly

FbmReturn ==
    /\ calc.fn = "fbmStandard"
    /\ calc.i >= calc.octaves
    /\ calc.out = {}
    /\ calc' = [calc EXCEPT !.out = {calc.sum}]
    /\ KernelOnly

NextFbm ==
    \/ FbmOctave
    \/ FbmReturn

InitFbm == InitCall(FbmCalls)

SpecFbm == InitFbm /\ [][NextFbm]_vars

RECURSIVE Power(_, _)
Power(b, e) == IF e = 0 THEN 1 ELSE b * Power(b, e - 1)

RECURSIVE PowerOf(_, _)
PowerOf(a, e) ==
    IF e = 0 THEN Fraction(1, 1) ELSE FractionTimes(a, PowerOf(a, e - 1))

RECURSIVE WeightedNoise(_, _, _)
\* noise_0 * 0.5 + ... + noise_(k-1) * 0.5 * persistence^(k-1).
WeightedNoise(noiseFn, persistence, k) ==
    IF k = 0 THEN Fraction(0, 1)
    ELSE FractionPlus(
             WeightedNoise(noiseFn, persistence, k - 1),
             FractionTimes(Fraction(noiseFn[k], 1),
                           FractionTimes(Fraction(1, 2),
                                         PowerOf(persistence, k - 1))))

\* The call of the example: stub noise 1, freq 2, lacunarity 3,
\* persistence 0.5, 3 octaves at (1,2,3).
IsExample ==
    /\ calc.p = <<1, 2, 3>>
    /\ calc.freq = 2 /\ calc.lacunarity = 3
    /\ calc.persistence = Fraction(1, 2) /\ calc.octaves = 3
    /\ \A k \in 1..3 : calc.noiseFn[k] = 1

\* C29: fbmStandard has called the noise function i times after i passes,
\* the j-th call (from 0) on the input point times freq * lacunarity^j,
\* and holds the sum of noise_j * 0.5 * persistence^j; it returns after
\* exactly `octaves` calls with that sum.  In the example the samples are
\* (2,4,6), (6,12,18), (18,36,54), in that order, and the result is 0.875.
C29_FbmStandardSamplesAndSum ==
    calc.fn = "fbmStandard" =>
        /\ Len(calc.samples) = calc.i
        /\ calc.i <= calc.octaves
        /\ \A j \in 1..Len(calc.samples) :
              calc.samples[j] =
                  [k \in 1..3 |->
                      calc.p[k] * (calc.freq * Power(calc.lacunarity, j - 1))]
        /\ SameValue(calc.sum,
                     WeightedNoise(calc.noiseFn, calc.persistence, calc.i))
        /\ \A result \in calc.out :
              /\ calc.i = calc.octaves
              /\ result = calc.sum
              /\ IsExample =>
                    /\ calc.samples =
                          <<<<2, 4, 6>>, <<6, 12, 18>>, <<18, 36, 54>>>>
                    /\ SameValue(result, Fraction(875, 1000))

\* The example call has returned.
C29_Witness ==
    /\ calc.fn = "fbmStandard"
    /\ IsExample
    /\ calc.out # {}

\* ---- the corners of the collision box ---------------------------------------
\* C30: in every collision test each of the 8 corners is built from the
\* half-extents the caller passed.
C30_CornersFromPassedHalfExtents ==
    \A r \in RoomIds : \A i \in 1..Len(eng[r].corners) :
        eng[r].corners[i] = "halfExtents"

\* ---- the sample points of the contact normal -------------------------------
\* Vector3 objects are mutable and the tick reuses a few of them: temps maps
\* the name of each object to its value, and a method changes the object it
\* is called on.  Components are in units of eps (0.5).
Eps ==
    1

\* this.set(x, y, z)
Vector3_set(temps, this, x, y, z) ==
    [temps EXCEPT ![this] = [x |-> x, y |-> y, z |-> z]]

\* this.copy(v), v the object named v
Vector3_copy(temps, this, v) == [temps EXCEPT ![this] = temps[v]]

\* this.add(v), v the object named v: the components of v are read one by
\* one while those of this are written.
Vector3_add(temps, this, v) ==
    LET t1 == [temps EXCEPT ![this].x = @ + temps[v].x]
        t2 == [t1 EXCEPT ![this].y = @ + t1[v].y]
    IN  [t2 EXCEPT ![this].z = @ + t2[v].z]

\* The six offsets, in the order the samples are taken.
SampleOffsets ==
    <<[x |-> Eps, y |-> 0, z |-> 0], [x |-> 0 - Eps, y |-> 0, z |-> 0],
      [x |-> 0, y |-> Eps, z |-> 0], [x |-> 0, y |-> 0 - Eps, z |-> 0],
      [x |-> 0, y |-> 0, z |-> Eps], [x |-> 0, y |-> 0, z |-> 0 - Eps]>>

\* _tmpA.copy(_closestCorner).add(_tmpA.set(..)): the receiver is evaluated
\* first, then the argument, then add is called with _tmpA as both.
samplePoint(temps, offset) ==
    LET t1 == Vector3_copy(temps, "_tmpA", "_closestCorner")
        t2 == Vector3_set(t1, "_tmpA", offset.x, offset.y, offset.z)
    IN  Vector3_add(t2, "_tmpA", "_tmpA")

TempNames == {"_tmpA", "_closestCorner"}

\* The finite-difference part of obbSignedDistanceWithNormal, entered with
\* any closest corner and any value left in _tmpA.
GradientCalls ==
    UNION {{[fn |-> "gradient",
             temps |-> [n \in TempNames |->
                           IF n = "_closestCorner" THEN c ELSE a],
             samples |-> <<>>] : a \in {ZeroVector, c}} : c \in Vectors}

\* The next signedDistanceToPlanet(_tmpA) of the six.
TakeSample ==
    /\ calc.fn = "gradient"
    /\ Len(calc.samples) < Len(SampleOffsets)
    /\ LET t == samplePoint(calc.temps, SampleOffsets[Len(calc.samples) + 1])
       IN  calc' = [calc EXCEPT !.temps = t,
                                !.samples = Append(@, t["_tmpA"])]
    /\ KernelOnly

NextGradient == TakeSample

InitGradient == InitCall(GradientCalls)

SpecGradient == InitGradient /\ [][NextGradient]_vars

\* C31: the i-th sample is taken at the closest corner displaced by the
\* i-th offset: +eps and -eps along x, then y, then z.
C31_SamplesAroundClosestCorner ==
    calc.fn = "gradient" =>
        \A i \in 1..Len(calc.samples) :
            LET c == calc.temps["_closestCorner"]
                o == SampleOffsets[i]
            IN  calc.samples[i] =
                    [x |-> c.x + o.x, y |-> c.y + o.y, z |-> c.z + o.z]

\* ---- round-robin start poses ------------------------------------------------
\* The engine holds precomputed start poses.
PosesExist(e) == e.startPositions # {} /\ Val(e.startPositions) # <<>>

\* C32: once an engine holds start poses, the index of the next pose to
\* hand out moves on by one with every addPlayer the worker handles and is
\* left alone by every other command (init included), so the k-th player
\* added gets pose k mod m whatever the order of init and addPlayer.
C32_RoundRobinOverEngineLife ==
    [][\A r \in RoomIds :
          (/\ Runnable(r)
           /\ inbox[r] # <<>>
           /\ inbox'[r] = Tail(inbox[r])
           /\ wstatus'[r] = wstatus[r]
           /\ PosesExist(eng[r]))
          => eng'[r].nextStartIndex =
                 IF Head(inbox[r]).type = "addPlayer"
                 THEN eng[r].nextStartIndex + 1
                 ELSE eng[r].nextStartIndex]_vars

\* ---- countdowns ---------------------------------------------------------
\* The latest step was a firing of the given timer of room r.
Fired(r, timer) == handled.room = r /\ handled.type = timer

TickValues(evts, r, type) == {e.arg : e \in {f \in evts : f.room = r /\ f.type = type}}

\* C33: a firing of a countdown timer with more than one second left
\* leaves the phase alone and broadcasts the seconds left, one less than the
\* firing before; the firing that reaches 0 (the N-th of a countdown of N
\* seconds) broadcasts no tick, changes the phase (to racecountdown after
\* the pregame countdown, to racing after the race countdown) and clears
\* the timer; a cleared timer does not fire, and no countdown is started a
\* second time.
C33_CountdownFiresNTimes ==
    [][\A r \in RoomIds :
          /\ Fired(r, "pregameTimer")' =>
                /\ timers[r].pre \in 1..ForceStartSeconds
                /\ timers'[r].pre = timers[r].pre - 1
                /\ TickValues(events', r, "pregame:tick") \subseteq {timers'[r].pre}
                /\ 0 \notin TickValues(events', r, "pregame:tick")
                /\ IF timers[r].pre > 1
                   THEN rooms'[r].phase = rooms[r].phase
                   ELSE getRoom(registry, r) =>
                            /\ rooms'[r].phase = "racecountdown"
                            /\ rooms[r].phase # "racecountdown"
                            /\ ~rooms'[r].pregameTimer
          /\ Fired(r, "raceTimer")' =>
                /\ timers[r].race \in 1..RaceCountdownSeconds
                /\ timers'[r].race = timers[r].race - 1
                /\ TickValues(events', r, "racecountdown:tick")
                       \subseteq {timers'[r].race}
                /\ 0 \notin TickValues(events', r, "racecountdown:tick")
                /\ IF timers[r].race > 1
                   THEN rooms'[r].phase = rooms[r].phase
                   ELSE getRoom(registry, r) =>
                            /\ rooms'[r].phase = "racing"
                            /\ rooms[r].phase # "racing"
                            /\ ~rooms'[r].raceTimer
          /\ ~Fired(r, "pregameTimer")' =>
                /\ TickValues(events', r, "pregame:tick") = {}
                /\ timers'[r].pre \in {timers[r].pre, 0, ForceStartSeconds}
                /\ timers'[r].pre > timers[r].pre => rooms[r].phase = "lobby"
          /\ ~Fired(r, "raceTimer")' /\ ~Fired(r, "pregameTimer")' =>
                /\ TickValues(events', r, "racecountdown:tick") = {}
                /\ timers'[r].race \in {timers[r].race, 0}]_vars

\* The race countdown of a room has just fired for the last time, after
\* the pregame countdown had run out: the room is racing, no timer is left.
C33_Witness ==
    \E r \in RoomIds :
        /\ Fired(r, "raceTimer")
        /\ getRoom(registry, r)
        /\ rooms[r].phase = "racing"
        /\ timers[r] = NoTimers
        /\ \E c \in Conns : conns[c].open /\ conns[c].roomId = r

\* ---- terrain parameters ---------------------------------------------------
\* Both clients join one room: the one that creates it supplies a flat
\* terrain or none, the one that joins it later a rough terrain; the main
\* process handles 'ready' and the worker its commands.
NextTerrain ==
    \/ \E c \in Clients, f \in {{}, {"flat"}} :
          JoinCreate(c, JoinPayload(f, {}))
    \/ \E c \in Clients : JoinExisting(c, JoinPayload({"rough"}, {}))
    \/ \E c \in Clients : Removed(c)
    \/ \E r \in RoomIds : MainOnMessage(r)
    \/ \E r \in RoomIds : WorkerProcess(r)
    \/ \E r \in RoomIds : PhysicsTimerFire(r)

SpecTerrain == InitWith(Clients, MaxRooms, {FALSE}) /\ [][NextTerrain]_vars

SpeedUnit == 60 * 1000

NaN == {}

Math_min(a, b) ==
    IF a = NaN \/ b = NaN THEN NaN
    ELSE {IF Val(a) < Val(b) THEN Val(a) ELSE Val(b)}

Math_max(a, b) ==
    IF a = NaN \/ b = NaN THEN NaN
    ELSE {IF Val(a) > Val(b) THEN Val(a) ELSE Val(b)}

\* clamp = (v, min, max) => Math.max(min, Math.min(max, v))
clamp(v, min, max) == Math_max(min, Math_min(max, v))

\* velocity.dot(tmpForward); forward holds the unit axis (0, 0, -1) rotated
\* by rot and is empty when rot is not finite (every component NaN).
Vector3_dot(v, forward) ==
    IF forward = {} THEN NaN
    ELSE LET f == Val(forward)
         IN  {SpeedUnit * (v.x * f.x + v.y * f.y + v.z * f.z)}

\* Math.max(0.0001, currentPlayerSpeed || 1)
maxSpeedOf(playerSpeed) ==
    Math_max({SpeedUnit \div 10000},
             {SpeedUnit * (IF playerSpeed = 0 THEN 1 ELSE playerSpeed)})

\* The signed speed of one tick: velocity projected on the forward axis,
\* accelerated towards maxSpeed (throttle > 0) or -maxSpeed / 2
\* (throttle < 0) by accel * throttle * FIXED_STEP, or multiplied by 0.99
\* (throttle = 0), then clamped to +-4 * maxSpeed.
thrustSpeed(velocity, forward, throttle, accel, playerSpeed) ==
    LET speed == Vector3_dot(velocity, forward)
        maxSpeed == maxSpeedOf(playerSpeed)
        maxBrakeSpeed == {0 - (Val(maxSpeed) \div 2)}
        ABS_SPEED_LIMIT == Val(maxSpeed) * 4
        pushed == IF speed = NaN THEN NaN
                  ELSE {Val(speed) + accel * throttle * (SpeedUnit \div 60)}
        thrust == IF throttle > 0 THEN Math_min(pushed, maxSpeed)
                  ELSE IF throttle < 0 THEN Math_max(pushed, maxBrakeSpeed)
                  ELSE IF speed = NaN THEN NaN
                  ELSE {(Val(speed) \div 100) * 99}
    IN  clamp(thrust, {0 - ABS_SPEED_LIMIT}, {ABS_SPEED_LIMIT})

\* The forward axes of the checked ticks: -z and x, and the axis of an
\* orientation that is not finite (the start pose on a zero tangent).
Forwards ==
    {{}, {[x |-> 0, y |-> 0, z |-> 0 - 1]}, {[x |-> 1, y |-> 0, z |-> 0]}}

ThrustCalls ==
    [fn : {"thrust"}, velocity : Vectors, forward : Forwards,
     throttle : {0 - 1, 0, 1}, accel : {0 - 1, 1, MaxTime * 60},
     playerSpeed : {0 - 1, 0, 1}, speed : {NaN}, done : {FALSE}]

CallThrust ==
    /\ calc.fn = "thrust"
    /\ ~calc.done
    /\ calc' = [calc EXCEPT
                  !.speed = thrustSpeed(calc.velocity, calc.forward,
                                        calc.throttle, calc.accel,
                                        calc.playerSpeed),
                  !.done = TRUE]
    /\ KernelOnly

NextThrust == CallThrust

InitThrust == InitCall(ThrustCalls)

SpecThrust == InitThrust /\ [][NextThrust]_vars

\* C35: with finite velocity, throttle and tuning values the speed a tick's
\* thrust step produces lies in [-4 * maxSpeed, 4 * maxSpeed], is at most
\* maxSpeed when throttle > 0 and at least -maxSpeed / 2 when throttle < 0.
C35_SpeedWithinLimits ==
    (calc.fn = "thrust" /\ calc.done) =>
        LET m == Val(maxSpeedOf(calc.playerSpeed))
        IN  /\ calc.speed # NaN
            /\ 0 - 4 * m <= Val(calc.speed)
            /\ Val(calc.speed) <= 4 * m
            /\ calc.throttle > 0 => Val(calc.speed) <= m
            /\ calc.throttle < 0 => 2 * Val(calc.speed) >= 0 - m

\* The same bound for the ticks whose forward axis is finite.
C35_FiniteForwardWithinLimits ==
    (calc.fn = "thrust" /\ calc.done /\ calc.forward # {}) =>
        LET m == Val(maxSpeedOf(calc.playerSpeed))
        IN  /\ calc.speed # NaN
            /\ 0 - 4 * m <= Val(calc.speed)
            /\ Val(calc.speed) <= 4 * m
            /\ calc.throttle > 0 => Val(calc.speed) <= m
            /\ calc.throttle < 0 => 2 * Val(calc.speed) >= 0 - m

\* C36: once every message in flight between a room and its worker has
\* been delivered (the worker's ready signal included), the players the
\* room's engine simulates are the players on the room's roster.
C36_EngineSimulatesRoster ==
    \A r \in RoomIds :
        ( /\ r \in registry
          /\ wstatus[r] = "alive"
          /\ closures[r].workerReady
          /\ inbox[r] = <<>>
          /\ outbox[r] = <<>> )
        => PresentPlayers(eng[r]) = Ids(rooms[r].players)

\* The rooms of the registry whose roster holds player p.
RoomsOf(p) == {r \in registry : p \in Ids(rooms[r].players)}

\* C37: a player id is on the roster of at most one room at any time, also
\* when its connection sends join more than once.
C37_OneRosterPerPlayer ==
    \A p \in Conns : Cardinality(RoomsOf(p)) <= 1

\* The roster entry of player p in room r.
Entry(rs, r, p) == rs[r].players[IndexOf(rs[r].players, p)]

\* C38: a finish command sent while the room is not racing, or by a player
\* that has finished already, leaves that player's score and finish time
\* and the room's phase as they were.
C38_FinishOnlyOnceWhileRacing ==
    [][\A c \in Conns :
         LET r == conns[c].roomId
         IN  ( /\ handled'.type = "finish"
               /\ handled'.conn = c
               /\ r # 0
               /\ getRoom(registry, r)
               /\ c \in Ids(rooms[r].players)
               /\ \/ rooms[r].phase # "racing"
                  \/ Entry(rooms, r, c).finishedAt # 0 )
             => /\ Entry(rooms', r, c).score = Entry(rooms, r, c).score
                /\ Entry(rooms', r, c).finishedAt
                       = Entry(rooms, r, c).finishedAt
                /\ rooms'[r].phase = rooms[r].phase]_vars

\* C39: in every reachable state a room's pregame timer is armed if and
\* only if its phase is pregame, its race-countdown timer if and only if
\* its phase is racecountdown, and at most one of the two is armed.
C39_TimersAgreeWithPhase ==
    \A r \in registry :
        /\ rooms[r].pregameTimer <=> rooms[r].phase = "pregame"
        /\ rooms[r].raceTimer <=> rooms[r].phase = "racecountdown"
        /\ ~(rooms[r].pregameTimer /\ rooms[r].raceTimer)
        /\ timers[r].pre > 0 <=> rooms[r].phase = "pregame"
        /\ timers[r].race > 0 <=> rooms[r].phase = "racecountdown"

\* The points of a curve are pairwise distinct.
PairwiseDistinct(points) ==
    \A i \in 1..Len(points), j \in 1..Len(points) :
        i # j => points[i] # points[j]

\* C40: every start pose the engine has precomputed from a curve of two or
\* more pairwise distinct points has a finite orientation (its tangent is
\* not zero), the pose at the last curve point included.
C40_StartPosesHaveOrientation ==
    \A r \in RoomIds :
        ( /\ eng[r].curvePoints # {}
          /\ eng[r].startPositions # {}
          /\ Len(Val(eng[r].curvePoints)) >= 2
          /\ PairwiseDistinct(Val(eng[r].curvePoints)) )
        => \A i \in 1..Len(Val(eng[r].startPositions)) :
               Val(eng[r].startPositions)[i].finite

====
